---- MODULE Spec2Model ----
(***************************************************************************)
(* Model of go.jtlabs.io/settings: Gather and the layers it runs over a    *)
(* caller supplied target (settings.go, options.go, errors.go).            *)
(*                                                                         *)
(* Go strings that the code inspects byte by byte (argv tokens, values,    *)
(* file paths) are sequences of one-character strings.  Dotted field paths *)
(* are sequences of field names ("Data.Host" is <<"Data", "Host">>).       *)
(***************************************************************************)
EXTENDS Integers, Sequences, FiniteSets, TLC

VARIABLES
    pc,            \* position of Gather: the step to run next, or a terminal state
    err,           \* the error Gather returns (NoErr while none)
    outType,       \* reflect.TypeOf(out): wrapper kinds down to the base kind
    target,        \* the values stored in the caller's record
    fieldTypeMap,  \* settings.fieldTypeMap: dotted path -> declared type
    osArgs,        \* os.Args
    environ,       \* the process environment: variable -> value ("" when unset)
    files,         \* the file system: path -> file
    trace,         \* history: the steps Gather has entered, in order
    pre,           \* history: the target when the last step was entered
    target0,       \* history: the target when Gather was called
    supplied,      \* history: layer -> (path -> value that layer wrote last)
    statCalls,     \* history: the number of os.Stat calls so far
    loaded,        \* history: <<step, path>> of every file decoded onto the target
    call,          \* unit harness: the last direct call and its inputs
    ret,           \* unit harness: what that call returned
    ros,           \* the ReadOptions values the caller holds, in the order it got them
    heap,          \* the maps that exist, by address
    lastCall       \* history: the last builder call, and what the values held before it

vars == <<pc, err, outType, target, fieldTypeMap, osArgs, environ, files,
          trace, pre, target0, supplied, statCalls, loaded, call, ret,
          ros, heap, lastCall>>

gatherVars == <<pc, err, outType, target, fieldTypeMap, osArgs, environ, files,
                trace, pre, target0, supplied, statCalls, loaded>>

unitVars == <<call, ret>>

optionVars == <<ros, heap, lastCall>>

----------------------------------------------------------------------------
(* Bounds *)

\* the longest value string drawn for the direct calls
MaxValLen == 2
\* the largest number of entries in a drawn DefaultsMap, ArgsMap or VarsMap
MaxEntries == 2

----------------------------------------------------------------------------
(* Helpers *)

Range(s) == {s[i] : i \in 1..Len(s)}

\* all sequences without repetition over the elements of S: the orders in
\* which a Go `range` over a map with key set S may visit it
RECURSIVE Orders(_)
Orders(S) ==
    IF S = {} THEN {<<>>}
    ELSE UNION {{<<x>> \o o : o \in Orders(S \ {x})} : x \in S}

\* f with g's entries laid over it
Overlay(f, g) ==
    [k \in DOMAIN f \cup DOMAIN g |-> IF k \in DOMAIN g THEN g[k] ELSE f[k]]

Empty == <<>>


----------------------------------------------------------------------------
(* errors.go *)

NoErr == [kind |-> "nil", cause |-> FALSE]
Panic == [kind |-> "panic", cause |-> FALSE]
ErrNotExist == [kind |-> "os.ErrNotExist", cause |-> FALSE]

SettingsFieldDoesNotExist == [kind |-> "SettingsFieldDoesNotExist", cause |-> FALSE]
SettingsFieldTypeMismatch == [kind |-> "SettingsFieldTypeMismatch", cause |-> FALSE]
\* m ...error: cause tells whether an underlying error was passed
SettingsFieldSetError(cause) == [kind |-> "SettingsFieldSetError", cause |-> cause]
SettingsFileParseError == [kind |-> "SettingsFileParseError", cause |-> FALSE]
SettingsFileReadError == [kind |-> "SettingsFileReadError", cause |-> FALSE]
SettingsFileTypeError == [kind |-> "SettingsFileTypeError", cause |-> FALSE]
SettingsOutCannotBeNil == [kind |-> "SettingsOutCannotBeNil", cause |-> FALSE]
SettingsTypeDiscoveryError == [kind |-> "SettingsTypeDiscoveryError", cause |-> FALSE]

IsOk(e) == e.kind = "nil"

----------------------------------------------------------------------------
(* The target's type.  A reflect.Type is a record; elem names the element  *)
(* kind of a slice, fields lists the fields of a struct.                   *)

Type(name, kind, bits, elem, fields) ==
    [name |-> name, kind |-> kind, bits |-> bits, elem |-> elem, fields |-> fields]
Field(name, type) == [name |-> name, type |-> type]

TString == Type("string", "String", 0, "", <<>>)
TBool == Type("bool", "Bool", 0, "", <<>>)
TInt == Type("int", "Int", 64, "", <<>>)
TInt8 == Type("int8", "Int8", 8, "", <<>>)
TUint8 == Type("uint8", "Uint8", 8, "", <<>>)
TInt64 == Type("int64", "Int64", 64, "", <<>>)
TUint64 == Type("uint64", "Uint64", 64, "", <<>>)
TFloat64 == Type("float64", "Float64", 64, "", <<>>)
TStrings == Type("[]string", "Slice", 0, "String", <<>>)
TInts == Type("[]int", "Slice", 0, "Int", <<>>)
\* a named type of the caller's, `type level int`: its kind is int
TLevel == Type("level", "Int", 64, "", <<>>)
TLocPtr == Type("*time.Location", "Ptr", 0, "", <<>>)
\* time.Time is a struct of three unexported fields
timeType ==
    Type("time.Time", "Struct", 0, "",
         <<Field("wall", TUint64), Field("ext", TInt64), Field("loc", TLocPtr)>>)
TData == Type("struct{Host}", "Struct", 0, "", <<Field("Host", TString)>>)

\* the record the caller hands to Gather:
\*   struct { Name string; Port int; Debug bool; Rate float64; Tags []string;
\*            Data struct { Host string }; Created time.Time; secret string }
Config ==
    Type("config", "Struct", 0, "",
         <<Field("Name", TString), Field("Port", TInt), Field("Debug", TBool),
           Field("Rate", TFloat64), Field("Tags", TStrings), Field("Data", TData),
           Field("Created", timeType), Field("secret", TString)>>)

\* a field name is exported when it starts with an upper case letter: of the
\* names of the model all but these four
Exported(name) == name \notin {"secret", "wall", "ext", "loc"}

\* the places of the record that hold a value: every leaf, time.Time as one value
Leaves ==
    {<<"Name">>, <<"Port">>, <<"Debug">>, <<"Rate">>, <<"Tags">>,
     <<"Data", "Host">>, <<"Created">>, <<"secret">>}

ZeroTime == [time |-> 0]

ZeroTarget ==
    (<<"Name">> :> <<>>) @@ (<<"Port">> :> 0) @@ (<<"Debug">> :> FALSE) @@
    (<<"Rate">> :> 0) @@ (<<"Tags">> :> <<>>) @@ (<<"Data", "Host">> :> <<>>) @@
    (<<"Created">> :> ZeroTime) @@ (<<"secret">> :> <<>>)

\* a record the caller filled in before the call
PresetTarget ==
    Overlay(ZeroTarget,
            (<<"Name">> :> <<"i">>) @@ (<<"Port">> :> 5) @@ (<<"Debug">> :> TRUE))

----------------------------------------------------------------------------
(* Building the path index *)

RECURSIVE StripKind(_, _)
\* `for ct.Kind() == k { ct = ct.Elem() }`
StripKind(ct, k) ==
    IF ct # <<>> /\ Head(ct) = k THEN StripKind(Tail(ct), k) ELSE ct

RECURSIVE iterateFields(_, _)
\* the <<path, type>> pairs iterateFields stores for `field` under parentPrefix
iterateFields(parentPrefix, field) ==
    LET fieldName == parentPrefix \o <<field.name>> IN
    IF field.type.kind # "Struct"
    THEN {<<fieldName, field.type>>}
    ELSE UNION {iterateFields(fieldName, field.type.fields[i]) :
                    i \in 1..Len(field.type.fields)}

\* the kind determineFieldTypes ends on: pointers stripped, then maps
DiscoveredKind(ot) == Head(StripKind(StripKind(ot, "Ptr"), "Map"))

\* determineFieldTypes without the check of the kind (lines 256-258)
determineFieldTypesAnyKind(ot) ==
    IF ot = <<>>
    THEN [err |-> SettingsOutCannotBeNil, index |-> Empty]
    ELSE LET pairs == UNION {iterateFields(<<>>, Config.fields[i]) :
                                 i \in 1..Len(Config.fields)}
         IN  [err |-> NoErr,
              index |-> [p \in {e[1] : e \in pairs} |->
                            (CHOOSE e \in pairs : e[1] = p)[2]]]

\* [err, index]: the error determineFieldTypes returns and the map it fills
determineFieldTypes(ot) ==
    IF ot = <<>>
    THEN [err |-> SettingsOutCannotBeNil, index |-> Empty]
    ELSE IF DiscoveredKind(ot) # "Struct"
    THEN [err |-> SettingsTypeDiscoveryError, index |-> Empty]
    ELSE LET pairs == UNION {iterateFields(<<>>, Config.fields[i]) :
                                 i \in 1..Len(Config.fields)}
         IN  [err |-> NoErr,
              index |-> [p \in {e[1] : e \in pairs} |->
                            (CHOOSE e \in pairs : e[1] = p)[2]]]

\* findOutFieldValue with every location it finds settable
findOutFieldValueAllSettable(ot, fieldPath) ==
    IF Head(StripKind(ot, "Ptr")) # "Struct"
    THEN [panic |-> TRUE, canSet |-> FALSE]
    ELSE [panic |-> FALSE, canSet |-> TRUE]

\* findOutFieldValue followed by CanSet: FieldByName panics on a value that is
\* not a struct; a field is settable when the record was reached through a
\* pointer and every field on the path is exported
findOutFieldValue(ot, fieldPath) ==
    IF Head(StripKind(ot, "Ptr")) # "Struct"
    THEN [panic |-> TRUE, canSet |-> FALSE]
    ELSE [panic |-> FALSE,
          canSet |-> /\ fieldPath # <<>>
                     /\ Head(ot) = "Ptr"
                     /\ \A i \in 1..Len(fieldPath) : Exported(fieldPath[i])]

----------------------------------------------------------------------------
(* strconv, as far as the characters of the model go: digits, sign, the     *)
(* 0x/0b/0o/0 prefixes; no underscores, exponents or fractions             *)

DigitVal(c) ==
    CASE c = "0" -> 0 [] c = "1" -> 1 [] c = "2" -> 2 [] c = "3" -> 3
      [] c = "4" -> 4 [] c = "5" -> 5 [] c = "6" -> 6 [] c = "7" -> 7
      [] c = "8" -> 8 [] c = "9" -> 9 [] c \in {"a", "A"} -> 10
      [] c \in {"b", "B"} -> 11 [] c \in {"c", "C"} -> 12
      [] c \in {"d", "D"} -> 13 [] c \in {"e", "E"} -> 14
      [] c \in {"f", "F"} -> 15 [] OTHER -> 99

\* 2^n; the checker's integers are 32 bits wide, so the limits of the 64 bit
\* kinds are drawn at 2^30, far above every number the model's strings denote
Pow2(n) == IF n > 30 THEN 2 ^ 30 ELSE 2 ^ n

RECURSIVE digitsVal(_, _, _)
\* the number the digits of s denote in `base` after acc, -1 on a bad digit
digitsVal(s, base, acc) ==
    IF s = <<>> THEN acc
    ELSE IF DigitVal(Head(s)) >= base THEN -1
    ELSE digitsVal(Tail(s), base, acc * base + DigitVal(Head(s)))

\* strconv.ParseUint(s, 0, bits)
ParseUint(s, bits) ==
    LET fail == [ok |-> FALSE, v |-> 0]
        pre2 == IF Len(s) >= 2 THEN s[2] ELSE ""
        base == IF s # <<>> /\ s[1] = "0"
                THEN (IF Len(s) >= 3 /\ pre2 \in {"b", "B"} THEN 2
                      ELSE IF Len(s) >= 3 /\ pre2 \in {"o", "O"} THEN 8
                      ELSE IF Len(s) >= 3 /\ pre2 \in {"x", "X"} THEN 16
                      ELSE 8)
                ELSE 10
        digits == IF s # <<>> /\ s[1] = "0"
                  THEN (IF Len(s) >= 3 /\ pre2 \in {"b", "B", "o", "O", "x", "X"}
                        THEN SubSeq(s, 3, Len(s))
                        ELSE Tail(s))
                  ELSE s
        range(n) == IF n < 0 \/ n >= Pow2(bits) THEN fail
                    ELSE [ok |-> TRUE, v |-> n]
    IN  IF s = <<>> THEN fail ELSE range(digitsVal(digits, base, 0))

\* strconv.ParseInt(s, 0, bits)
ParseInt(s, bits) ==
    LET fail == [ok |-> FALSE, v |-> 0]
        neg == s # <<>> /\ s[1] = "-"
        rest == IF s # <<>> /\ s[1] \in {"+", "-"} THEN Tail(s) ELSE s
        signed(un) ==
            IF ~un.ok THEN fail
            ELSE IF ~neg /\ un.v >= Pow2(bits - 1) THEN fail
            ELSE IF neg /\ un.v > Pow2(bits - 1) THEN fail
            ELSE [ok |-> TRUE, v |-> IF neg THEN 0 - un.v ELSE un.v]
    IN  IF s = <<>> THEN fail ELSE signed(ParseUint(rest, bits))

TrueLiterals ==
    {<<"1">>, <<"t">>, <<"T">>, <<"T", "R", "U", "E">>, <<"t", "r", "u", "e">>,
     <<"T", "r", "u", "e">>}
FalseLiterals ==
    {<<"0">>, <<"f">>, <<"F">>, <<"F", "A", "L", "S", "E">>,
     <<"f", "a", "l", "s", "e">>, <<"F", "a", "l", "s", "e">>}

\* strconv.ParseBool
ParseBool(s) ==
    IF s \in TrueLiterals THEN [ok |-> TRUE, v |-> TRUE]
    ELSE IF s \in FalseLiterals THEN [ok |-> TRUE, v |-> FALSE]
    ELSE [ok |-> FALSE, v |-> FALSE]

\* strconv.ParseFloat on a signed run of decimal digits
ParseFloat(s) ==
    LET rest == IF s # <<>> /\ s[1] \in {"+", "-"} THEN Tail(s) ELSE s
        signed(n) == IF n < 0 THEN [ok |-> FALSE, v |-> 0]
                     ELSE [ok |-> TRUE, v |-> IF s[1] = "-" THEN 0 - n ELSE n]
    IN  IF rest = <<>> THEN [ok |-> FALSE, v |-> 0]
        ELSE signed(digitsVal(rest, 10, 0))

\* a time of day in the layout time.RFC3339, held as one character
Timestamp == <<"2021-02-16T00:00:00Z">>

\* time.Parse(time.RFC3339, s): none of the model's strings is a timestamp
\* except the one spelled <<"2021-02-16T00:00:00Z">>
ParseTime(s) ==
    IF s = Timestamp
    THEN [ok |-> TRUE, v |-> [time |-> 1]]
    ELSE [ok |-> FALSE, v |-> ZeroTime]

RECURSIVE commaSplit(_, _)
\* commaRE.Split(s, -1) with commaRE = `\,\s?`; cur is the piece being read
commaSplit(s, cur) ==
    IF s = <<>> THEN <<cur>>
    ELSE IF Head(s) = ","
    THEN LET after == Tail(s)
             skip == IF after # <<>> /\ Head(after) = " " THEN Tail(after) ELSE after
         IN  <<cur>> \o commaSplit(skip, <<>>)
    ELSE commaSplit(Tail(s), Append(cur, Head(s)))

----------------------------------------------------------------------------
(* setFieldValue: coercion of a string to the declared type, then the write *)

SignedKinds == {"Int", "Int8", "Int16", "Int32", "Int64"}
UnsignedKinds == {"Uint", "Uint8", "Uint16", "Uint32", "Uint64"}
FloatKinds == {"Float32", "Float64"}

\* reflect.Type.Bits() of a numeric kind (int and uint are 64 bits wide)
BitsOf(kind) ==
    CASE kind \in {"Int8", "Uint8"} -> 8
      [] kind \in {"Int16", "Uint16"} -> 16
      [] kind \in {"Int32", "Uint32", "Float32"} -> 32
      [] OTHER -> 64

\* what a case of the switch leaves: the value, or the error of `if err != nil`
Coerced(r) == [err |-> IF r.ok THEN NoErr ELSE SettingsFieldSetError(TRUE), v |-> r.v]

\* one piece of a slice value, by the element kind st
coerceElem(st, sv) ==
    Coerced(CASE st = "Bool" -> ParseBool(sv)
              [] st \in SignedKinds -> ParseInt(sv, BitsOf(st))
              [] st \in UnsignedKinds -> ParseUint(sv, BitsOf(st))
              [] st \in FloatKinds -> ParseFloat(sv)
              [] OTHER -> [ok |-> st = "String", v |-> sv])

RECURSIVE coercePieces(_, _)
\* the loop over sVals: stops at the first piece that fails
coercePieces(st, sVals) ==
    IF sVals = <<>> THEN [err |-> NoErr, v |-> <<>>]
    ELSE LET rest(h, r) ==
                 IF ~IsOk(r.err) THEN r ELSE [err |-> NoErr, v |-> <<h.v>> \o r.v]
             first(h) ==
                 IF ~IsOk(h.err) THEN [err |-> h.err, v |-> <<>>]
                 ELSE rest(h, coercePieces(st, Tail(sVals)))
         IN  first(coerceElem(st, Head(sVals)))

\* case reflect.Array, reflect.Slice
coerceSlice(t, sVal) == coercePieces(t.elem, commaSplit(sVal, <<>>))

\* the scalar cases of the switch on t.Kind()
coerceScalar(t, sVal) ==
    LET k == t.kind
        \* case reflect.Uint: ParseInt, then uint(pv), which wraps a negative number
        uint(pv) == [ok |-> pv.ok, v |-> pv.v % Pow2(64)]
    IN  Coerced(CASE k = "Bool" -> ParseBool(sVal)
                  [] k \in SignedKinds -> ParseInt(sVal, t.bits)
                  [] k = "Uint" -> uint(ParseInt(sVal, t.bits))
                  [] k \in UnsignedKinds \ {"Uint"} -> ParseUint(sVal, t.bits)
                  [] k \in FloatKinds -> ParseFloat(sVal)
                  [] k = "String" -> [ok |-> TRUE, v |-> sVal]
                  [] OTHER ->
                       IF t = timeType THEN ParseTime(sVal)
                       ELSE [ok |-> FALSE, v |-> 0])

\* `reflect.Zero(t) == val || val == nil`: the left side is a reflect.Value, val
\* holds a bool, a number, a string, a time or a slice; an interface comparison
\* of values of different dynamic types is false, and val is never nil here
nothingToSet(t, val) == FALSE

\* setFieldValue passing over a path that is not in the index
setFieldValueSkipUnknown(ot, index, tgt, fieldPath, sVal) ==
    IF fieldPath \notin DOMAIN index
    THEN [err |-> NoErr, target |-> tgt, wrote |-> FALSE]
    ELSE
      LET t == index[fieldPath]
          kept(e) == [err |-> e, target |-> tgt, wrote |-> FALSE]
          set(loc, c) ==
              IF ~IsOk(c.err) THEN kept(c.err)
              ELSE IF loc.panic THEN kept(Panic)
              ELSE IF loc.canSet
              THEN [err |-> NoErr, target |-> [tgt EXCEPT ![fieldPath] = c.v],
                    wrote |-> TRUE]
              ELSE kept(SettingsFieldSetError(FALSE))
          coerce(loc) ==
              set(loc, IF t.kind \in {"Array", "Slice"}
                       THEN (IF loc.panic \/ t.kind = "Array"
                             THEN [err |-> Panic, v |-> 0]
                             ELSE coerceSlice(t, sVal))
                       ELSE coerceScalar(t, sVal))
      IN  coerce(findOutFieldValue(ot, fieldPath))

\* setFieldValue storing what it has coerced so far before it returns an error
setFieldValueStoreFirst(ot, index, tgt, fieldPath, sVal) ==
    IF fieldPath \notin DOMAIN index
    THEN [err |-> SettingsFieldDoesNotExist, target |-> tgt, wrote |-> FALSE]
    ELSE
      LET t == index[fieldPath]
          kept(e, v) == [err |-> e, target |-> [tgt EXCEPT ![fieldPath] = v],
                         wrote |-> TRUE]
          set(loc, c) ==
              IF ~IsOk(c.err) THEN kept(c.err, c.v)
              ELSE IF loc.panic THEN kept(Panic, tgt[fieldPath])
              ELSE IF loc.canSet
              THEN [err |-> NoErr, target |-> [tgt EXCEPT ![fieldPath] = c.v],
                    wrote |-> TRUE]
              ELSE kept(SettingsFieldSetError(FALSE), c.v)
          coerce(loc) ==
              set(loc, IF t.kind \in {"Array", "Slice"}
                       THEN (IF loc.panic \/ t.kind = "Array"
                             THEN [err |-> Panic, v |-> 0]
                             ELSE coerceSlice(t, sVal))
                       ELSE coerceScalar(t, sVal))
      IN  coerce(findOutFieldValue(ot, fieldPath))

\* [err, target, wrote]: the result of s.setFieldValue(fieldPath, sVal, _) on tgt.
\* In the case of a slice or an array findOutFieldValue comes first, then
\* reflect.MakeSlice, which panics when the field's type is an array type.
setFieldValue(ot, index, tgt, fieldPath, sVal) ==
    IF fieldPath \notin DOMAIN index
    THEN [err |-> SettingsFieldDoesNotExist, target |-> tgt, wrote |-> FALSE]
    ELSE
      LET t == index[fieldPath]
          kept(e) == [err |-> e, target |-> tgt, wrote |-> FALSE]
          set(loc, c) ==
              IF ~IsOk(c.err) THEN kept(c.err)
              ELSE IF nothingToSet(t, c.v) THEN kept(NoErr)
              ELSE IF loc.panic THEN kept(Panic)
              ELSE IF loc.canSet
              THEN [err |-> NoErr, target |-> [tgt EXCEPT ![fieldPath] = c.v],
                    wrote |-> TRUE]
              ELSE kept(SettingsFieldSetError(FALSE))
          coerce(loc) ==
              set(loc, IF t.kind \in {"Array", "Slice"}
                       THEN (IF loc.panic \/ t.kind = "Array"
                             THEN [err |-> Panic, v |-> 0]
                             ELSE coerceSlice(t, sVal))
                       ELSE coerceScalar(t, sVal))
      IN  coerce(findOutFieldValue(ot, fieldPath))

----------------------------------------------------------------------------
(* Command line values *)

charCheck == <<"=", "'", "\"">>

RECURSIVE cleanLoop(_, _)
\* the loop of cleanArgValue from charCheck[i] on; v[0] of an empty string and
\* v[1:0] are run time panics
cleanLoop(v, i) ==
    IF i > Len(charCheck) THEN [panic |-> FALSE, v |-> v]
    ELSE IF v = <<>> THEN [panic |-> TRUE, v |-> v]
    ELSE IF v[1] = charCheck[i] /\ i = 1 THEN cleanLoop(Tail(v), i + 1)
    ELSE IF v[1] = v[Len(v)] /\ v[1] = charCheck[i]
    THEN (IF Len(v) = 1 THEN [panic |-> TRUE, v |-> v]
          ELSE cleanLoop(SubSeq(v, 2, Len(v) - 1), i + 1))
    ELSE cleanLoop(v, i + 1)

cleanArgValue(v) ==
    IF Len(v) = 0 THEN [panic |-> FALSE, v |-> v] ELSE cleanLoop(v, 1)

\* the two tests the scan makes on os.Args[i] (i from 1) for the switch arg:
\* `arg=...` first, then arg itself with a token after it
matchArg(args, arg, i) ==
    LET oa == args[i]
        al == Len(arg)
    IN  IF Len(oa) > al /\ SubSeq(oa, 1, al) = arg /\ oa[al + 1] = "="
        THEN [m |-> TRUE, raw |-> SubSeq(oa, al + 1, Len(oa))]
        ELSE IF oa = arg /\ i < Len(args)
        THEN [m |-> TRUE, raw |-> args[i + 1]]
        ELSE [m |-> FALSE, raw |-> <<>>]

RECURSIVE scanArgsBareSwitch(_, _, _)
\* the scan taking a switch that ends the argument list for one with an empty
\* value (the direct match without `i < totalArgs-1`)
scanArgsBareSwitch(args, arg, i) ==
    IF i > Len(args) THEN [m |-> FALSE, raw |-> <<>>]
    ELSE IF args[i] = arg /\ i = Len(args) THEN [m |-> TRUE, raw |-> <<>>]
    ELSE LET r == matchArg(args, arg, i) IN
         IF r.m THEN r ELSE scanArgsBareSwitch(args, arg, i + 1)

RECURSIVE scanArgs(_, _, _)
\* `for i, oa := range os.Args`: the first token that matches, from i on
scanArgs(args, arg, i) ==
    IF i > Len(args) THEN [m |-> FALSE, raw |-> <<>>]
    ELSE LET r == matchArg(args, arg, i) IN
         IF r.m THEN r ELSE scanArgs(args, arg, i + 1)

----------------------------------------------------------------------------
(* The keyed appliers.  Each returns [err, target, writes]: the error, the  *)
(* target it leaves and, per path it wrote, the value it wrote last.  A Go  *)
(* map is visited in an unspecified order: `order` lists the keys as the    *)
(* range statement happens to yield them.                                  *)

Result(e, tgt, w) == [err |-> e, target |-> tgt, writes |-> w]

RECURSIVE applyArgsFrom(_, _, _, _, _, _, _)
applyArgsFrom(ot, index, tgt, args, a, order, w) ==
    IF order = <<>> THEN Result(NoErr, tgt, w)
    ELSE
      LET arg == Head(order)
          set(r) ==
              IF ~IsOk(r.err) THEN Result(r.err, r.target, w)
              ELSE applyArgsFrom(ot, index, r.target, args, a, Tail(order),
                                 IF r.wrote THEN Overlay(w, a[arg] :> r.target[a[arg]])
                                 ELSE w)
          clean(cv) ==
              IF cv.panic THEN Result(Panic, tgt, w)
              ELSE set(setFieldValue(ot, index, tgt, a[arg], cv.v))
          match(hit) ==
              IF ~hit.m THEN applyArgsFrom(ot, index, tgt, args, a, Tail(order), w)
              ELSE clean(cleanArgValue(hit.raw))
      IN  match(scanArgs(args, arg, 1))

\* s.applyArgs(a) with os.Args = args
applyArgs(ot, index, tgt, args, a, order) ==
    applyArgsFrom(ot, index, tgt, args, a, order, <<>>)

RECURSIVE applyVarsFrom(_, _, _, _, _, _, _)
applyVarsFrom(ot, index, tgt, env, v, order, w) ==
    IF order = <<>> THEN Result(NoErr, tgt, w)
    ELSE
      LET evar == Head(order)
          val == env[evar]
          set(r) ==
              IF ~IsOk(r.err) THEN Result(r.err, r.target, w)
              ELSE applyVarsFrom(ot, index, r.target, env, v, Tail(order),
                                 IF r.wrote THEN Overlay(w, v[evar] :> r.target[v[evar]])
                                 ELSE w)
      IN  IF val = <<>> THEN applyVarsFrom(ot, index, tgt, env, v, Tail(order), w)
          ELSE set(setFieldValue(ot, index, tgt, v[evar], val))

\* s.applyVars(v) with the environment env
applyVars(ot, index, tgt, env, v, order) ==
    applyVarsFrom(ot, index, tgt, env, v, order, <<>>)

\* a value of the defaults map, an interface{}: its dynamic type, that type's
\* kind, the value
DefVal(type, v) == <<type.name, type.kind, v>>
TypeOf(defVal) == defVal[1]
KindOf(defVal) == defVal[2]
ValueOf(defVal) == defVal[3]

RECURSIVE validateDefaults(_, _, _, _, _)
\* the first loop of applyDefaultsMap: [err, staged], staged the field names
\* appended to a, in order
validateDefaults(ot, index, d, order, staged) ==
    IF order = <<>> THEN [err |-> NoErr, staged |-> staged]
    ELSE
      LET fieldName == Head(order)
          loc == findOutFieldValue(ot, fieldName)
      IN  IF fieldName \notin DOMAIN index
          THEN [err |-> SettingsFieldDoesNotExist, staged |-> staged]
          ELSE IF index[fieldName].kind # KindOf(d[fieldName])
          THEN [err |-> SettingsFieldTypeMismatch, staged |-> staged]
          ELSE IF loc.panic THEN [err |-> Panic, staged |-> staged]
          ELSE IF ~loc.canSet
          THEN [err |-> SettingsFieldSetError(FALSE), staged |-> staged]
          ELSE validateDefaults(ot, index, d, Tail(order), Append(staged, fieldName))

RECURSIVE commitDefaults(_, _, _, _, _)
\* the second loop: fieldVal.Set(dv) panics unless dv's type is the field's
commitDefaults(index, tgt, d, staged, w) ==
    IF staged = <<>> THEN Result(NoErr, tgt, w)
    ELSE
      LET fieldName == Head(staged) IN
      IF TypeOf(d[fieldName]) # index[fieldName].name THEN Result(Panic, tgt, w)
      ELSE commitDefaults(index, [tgt EXCEPT ![fieldName] = ValueOf(d[fieldName])], d,
                          Tail(staged), Overlay(w, fieldName :> ValueOf(d[fieldName])))

\* s.applyDefaultsMap(d)
applyDefaultsMap(ot, index, tgt, d, order) ==
    LET commit(val) ==
            IF ~IsOk(val.err) THEN Result(val.err, tgt, <<>>)
            ELSE commitDefaults(index, tgt, d, val.staged, <<>>)
    IN  IF DOMAIN d = {} THEN Result(NoErr, tgt, <<>>)
        ELSE commit(validateDefaults(ot, index, d, order, <<>>))

----------------------------------------------------------------------------
(* Files.  A file is [status, data]: data is what its document says, path   *)
(* by path; status "ok", "corrupt" (the decoder fails on it), "unreadable"  *)
(* (ReadFile fails) or "denied" (Stat fails for another reason than         *)
(* absence).  A path outside DOMAIN fs does not exist.                      *)

File(status, data) == [status |-> status, data |-> data]

\* [err, target, writes, stats, loads]: stats the paths handed to os.Stat, in
\* order, loads the paths decoded onto the target without error
FResult(e, tgt, w, st, ld) ==
    [err |-> e, target |-> tgt, writes |-> w, stats |-> st, loads |-> ld]

RECURSIVE extFrom(_, _)
\* filepath.Ext: from the last dot of the last path element on
extFrom(path, i) ==
    IF i < 1 \/ path[i] = "/" THEN <<>>
    ELSE IF path[i] = "." THEN SubSeq(path, i, Len(path))
    ELSE extFrom(path, i - 1)

yml == <<".", "y", "m", "l">>
yaml == <<".", "y", "a", "m", "l">>
json == <<".", "j", "s", "o", "n">>
settingsExt == <<yml, yaml, json, <<>>>>

\* "yaml", "json", or "" for SettingsFileTypeError
determineFileType(path) ==
    LET ext == extFrom(path, Len(path)) IN
    IF ext \in {yml, yaml} THEN "yaml"
    ELSE IF ext = json THEN "json"
    ELSE ""

\* yaml.Unmarshal / json.Unmarshal of `file` onto out: the document's values
\* are laid over the record, fields it does not name are left alone.  A
\* decoder that fails has written the fields in `partial` before it failed.
\* Without a pointer neither decoder can store: json reports it, yaml panics.
\* A map target is filled by key: the record of the model is not touched.
decode(ot, tgt, file, t, partial) ==
    LET some == [p \in DOMAIN file.data \cap partial |-> file.data[p]] IN
    IF Head(StripKind(ot, "Ptr")) # "Struct" THEN Result(NoErr, tgt, Empty)
    ELSE IF Head(ot) # "Ptr"
    THEN Result(IF t = "json" THEN SettingsFileParseError ELSE Panic, tgt, Empty)
    ELSE IF file.status = "corrupt"
    THEN Result(SettingsFileParseError, Overlay(tgt, some), some)
    ELSE Result(NoErr, Overlay(tgt, file.data), file.data)

\* s.unmarshalFile(path, s.out)
unmarshalFile(ot, tgt, fs, path, partial) ==
    LET t == determineFileType(path) IN
    IF t = "" THEN Result(SettingsFileTypeError, tgt, Empty)
    ELSE IF fs[path].status = "unreadable"
    THEN Result(SettingsFileReadError, tgt, Empty)
    ELSE decode(ot, tgt, fs[path], t, partial)

\* s.readOverrideFile(path)
readOverrideFile(ot, tgt, fs, path, partial) ==
    IF path \notin DOMAIN fs
    THEN FResult(ErrNotExist, tgt, Empty, <<path>>, <<>>)
    ELSE IF fs[path].status = "denied"
    THEN FResult(SettingsFileReadError, tgt, Empty, <<path>>, <<>>)
    ELSE LET read(r) == FResult(r.err, r.target, r.writes, <<path>>,
                                IF IsOk(r.err) THEN <<path>> ELSE <<>>)
         IN  read(unmarshalFile(ot, tgt, fs, path, partial))

\* readBaseSettings taking a base file that is not there for no base file
readBaseSettingsMissingOk(ot, tgt, fs, path, partial) ==
    IF path = <<>> \/ path \notin DOMAIN fs
    THEN FResult(NoErr, tgt, Empty, <<>>, <<>>)
    ELSE readOverrideFile(ot, tgt, fs, path, partial)

\* s.readBaseSettings(path)
readBaseSettings(ot, tgt, fs, path, partial) ==
    IF path = <<>> THEN FResult(NoErr, tgt, Empty, <<>>, <<>>)
    ELSE readOverrideFile(ot, tgt, fs, path, partial)

----------------------------------------------------------------------------
(* The file searches *)

NoFiles(tgt) == FResult(NoErr, tgt, Empty, <<>>, <<>>)

\* acc continued by the file read r
Merge(acc, r) ==
    FResult(r.err, r.target, Overlay(acc.writes, r.writes),
            acc.stats \o r.stats, acc.loads \o r.loads)

RECURSIVE argOverridesFrom(_, _, _, _, _, _)
argOverridesFrom(ot, fs, args, triggers, partial, acc) ==
    IF triggers = <<>> THEN acc
    ELSE
      LET a == Head(triggers)
          read(m) ==
              IF ~IsOk(m.err) THEN m
              ELSE argOverridesFrom(ot, fs, args, Tail(triggers), partial, m)
          clean(path) ==
              IF path.panic THEN [acc EXCEPT !.err = Panic]
              ELSE IF path.v = <<>>
              THEN argOverridesFrom(ot, fs, args, Tail(triggers), partial, acc)
              ELSE read(Merge(acc, readOverrideFile(ot, acc.target, fs, path.v,
                                                    partial)))
          match(hit) ==
              IF ~hit.m
              THEN argOverridesFrom(ot, fs, args, Tail(triggers), partial, acc)
              ELSE clean(cleanArgValue(hit.raw))
      IN  match(scanArgs(args, a, 1))

\* searchForArgOverrides going through the triggers from the last to the first
searchForArgOverridesLastFirst(ot, tgt, fs, osa, args, partial) ==
    argOverridesFrom(ot, fs, osa, [i \in 1..Len(args) |-> args[Len(args) + 1 - i]],
                     partial, NoFiles(tgt))

\* s.searchForArgOverrides(args) with os.Args = osa
searchForArgOverrides(ot, tgt, fs, osa, args, partial) ==
    argOverridesFrom(ot, fs, osa, args, partial, NoFiles(tgt))

RECURSIVE Sprintf(_, _)
\* fmt.Sprintf(format, arg) for a format whose only verb is %s
Sprintf(format, arg) ==
    IF format = <<>> THEN <<>>
    ELSE IF Head(format) = "%s" THEN arg \o Sprintf(Tail(format), arg)
    ELSE <<Head(format)>> \o Sprintf(Tail(format), arg)

\* path.Join of a directory and a name, both already clean
Join(prefix, name) ==
    IF prefix = <<>> THEN name
    ELSE IF name = <<>> THEN prefix
    ELSE prefix \o <<"/">> \o name

RECURSIVE extensionSearch(_, _, _, _, _, _)
\* the closure extensionSearch(sp) of searchForEnvOverrides from settingsExt[i]
\* on: [found, res]
extensionSearch(ot, fs, sp, i, partial, acc) ==
    IF i > Len(settingsExt) THEN [found |-> FALSE, res |-> acc]
    ELSE
      LET spf == sp \o settingsExt[i]
          seen == [acc EXCEPT !.stats = Append(acc.stats, spf)]
          read(r) == [found |-> IsOk(r.err), res |-> Merge(seen, r)]
      IN  IF spf \notin DOMAIN fs \/ fs[spf].status = "denied"
          THEN extensionSearch(ot, fs, sp, i + 1, partial, seen)
          ELSE read(readOverrideFile(ot, acc.target, fs, spf, partial))

RECURSIVE searchPathsFrom(_, _, _, _, _, _, _)
\* `for _, prefix := range searchPaths`: ends at the first directory with a match
searchPathsFrom(ot, fs, envName, searchPaths, filePattern, partial, acc) ==
    IF searchPaths = <<>> THEN acc
    ELSE
      LET prefix == Head(searchPaths)
          last(byName) ==
              IF ~IsOk(byName.res.err) \/ byName.found THEN byName.res
              ELSE searchPathsFrom(ot, fs, envName, Tail(searchPaths), filePattern,
                                   partial, byName.res)
          second(byPattern) ==
              IF ~IsOk(byPattern.res.err) THEN byPattern.res
              ELSE IF ~byPattern.found /\ filePattern = <<>>
              THEN last(extensionSearch(ot, fs, Join(prefix, envName), 1, partial,
                                        byPattern.res))
              ELSE last(byPattern)
      IN  IF filePattern # <<>>
          THEN second(extensionSearch(ot, fs,
                                      Join(prefix, Sprintf(filePattern, envName)),
                                      1, partial, acc))
          ELSE second([found |-> FALSE, res |-> acc])

RECURSIVE envOverridesFrom(_, _, _, _, _, _, _, _)
\* `for _, v := range vars`: the break of the inner loop does not end this one
envOverridesFrom(ot, fs, env, evars, searchPaths, filePattern, partial, acc) ==
    IF evars = <<>> THEN acc
    ELSE
      LET envName == env[Head(evars)]
          next(r) ==
              IF ~IsOk(r.err) THEN r
              ELSE envOverridesFrom(ot, fs, env, Tail(evars), searchPaths,
                                    filePattern, partial, r)
      IN  IF envName # <<>>
          THEN next(searchPathsFrom(ot, fs, envName, searchPaths, filePattern,
                                    partial, acc))
          ELSE next(acc)

\* s.searchForEnvOverrides(vars, searchPaths, filePattern)
searchForEnvOverrides(ot, tgt, fs, env, evars, searchPaths, filePattern, partial) ==
    IF Len(evars) = 0 \/ Len(searchPaths) = 0 THEN NoFiles(tgt)
    ELSE envOverridesFrom(ot, fs, env, evars, searchPaths, filePattern, partial,
                          NoFiles(tgt))

----------------------------------------------------------------------------
(* The inputs of a run: small sets of argument lists, environments, file    *)
(* systems, target types and options                                       *)

\* the deepest nesting of pointers and maps around the drawn target types
MaxIndirection == 1

\* switches and variables
swName == <<"-", "n">>
swPort == <<"-", "p">>
swAlias == <<"-", "a">>
swFile == <<"-", "f">>
swFile2 == <<"-", "g">>
EnvVars == {"GO_ENV", "ENV2", "NAME", "PORT"}

\* paths
baseYml == <<"b">> \o yml
missingYml == <<"m">> \o yml
plainTxt == <<"x", ".", "t", "x", "t">>
overJson == <<"o">> \o json
overYml == <<"p">> \o yml
brokenJson == <<"k">> \o json
dirD == <<"d">>
dirE == <<"e">>
pattern == <<"c", ".", "%s">>

D(p, v) == p :> v

\* the files that are always there
FixedFiles ==
    (baseYml :> File("ok", D(<<"Name">>, <<"b">>) @@ D(<<"Port">>, 1))) @@
    (plainTxt :> File("ok", D(<<"Name">>, <<"x">>))) @@
    (overJson :> File("ok", D(<<"Name">>, <<"o">>))) @@
    (overYml :> File("ok", D(<<"Name">>, <<"p">>) @@ D(<<"Port">>, 2))) @@
    (brokenJson :> File("corrupt", D(<<"Name">>, <<"k">>)))

\* the files the environment search may come across
EnvFiles ==
    (Join(dirD, <<"t">> \o yml) :> File("ok", D(<<"Name">>, <<"t">>))) @@
    (Join(dirD, <<"c", ".", "t">> \o yml) :> File("ok", D(<<"Name">>, <<"c">>))) @@
    (Join(dirE, <<"t">> \o json) :> File("ok", D(<<"Port">>, 3))) @@
    (Join(dirD, <<"u">> \o yaml) :> File("ok", D(<<"Data", "Host">>, <<"u">>))) @@
    (Join(dirD, <<"t">>) :> File("ok", D(<<"Name">>, <<"z">>)))

\* which of them exist
EnvFileSets ==
    {{Join(dirD, <<"t">> \o yml), Join(dirD, <<"u">> \o yaml)},
     {Join(dirD, <<"t">> \o yml), Join(dirD, <<"c", ".", "t">> \o yml)},
     {Join(dirE, <<"t">> \o json), Join(dirD, <<"t">>)},
     DOMAIN EnvFiles}

FsChoices ==
    {Overlay(FixedFiles, [p \in S |-> EnvFiles[p]]) : S \in EnvFileSets}

cmd == <<"c">>

ArgvChoices ==
    {<<cmd>>,
     <<cmd, swFile, overJson, swName, <<"a">>>>,
     <<cmd, swFile \o <<"=">> \o overJson, swFile2, overYml, swPort, <<"7">>>>,
     <<cmd, swFile, brokenJson, swName, <<"a">>>>,
     <<cmd, swFile2, missingYml, swName \o <<"=", "a">>, swPort, <<"a">>>>,
     <<cmd, swName, <<"a">>, swPort \o <<"=", "7">>, swAlias, <<"l">>>>,
     <<cmd, swName, <<>>>>,
     <<cmd, swName \o <<"=">>>>}

Env(goEnv, env2, name, port) ==
    ("GO_ENV" :> goEnv) @@ ("ENV2" :> env2) @@ ("NAME" :> name) @@ ("PORT" :> port)

EnvChoices ==
    {Env(<<>>, <<>>, <<>>, <<>>),
     Env(<<"t">>, <<>>, <<>>, <<>>),
     Env(<<"t">>, <<"u">>, <<>>, <<>>),
     Env(<<>>, <<"u">>, <<"v">>, <<>>),
     Env(<<>>, <<>>, <<"v">>, <<"8">>),
     Env(<<>>, <<>>, <<"v">>, <<"v">>),
     Env(<<"t">>, <<>>, <<"v">>, <<"8">>),
     Env(<<"t">>, <<"u">>, <<>>, <<"v">>)}

RECURSIVE Wrappers(_)
\* the sequences of at most n pointer and map wrappers
Wrappers(n) ==
    IF n = 0 THEN {<<>>}
    ELSE LET W == Wrappers(n - 1) IN
         W \cup {<<k>> \o w : k \in {"Ptr", "Map"}, w \in W}

\* reflect.TypeOf(out): <<>> is the nil interface
TypeChoices ==
    {<<>>} \cup
    {w \o <<k>> : w \in Wrappers(MaxIndirection),
                  k \in {"Struct", "Int", "String", "Slice"}}

\* DefaultsMap entries: path and value
DefaultEntries ==
    {<<<<"Port">>, DefVal(TInt, 9)>>,
     <<<<"Name">>, DefVal(TString, <<"d">>)>>,
     <<<<"Port">>, DefVal(TString, <<"9">>)>>,
     <<<<"Port">>, DefVal(TLevel, 9)>>,
     <<<<"Nope">>, DefVal(TBool, TRUE)>>,
     <<<<"Created", "wall">>, DefVal(TUint64, 1)>>,
     <<<<"Tags">>, DefVal(TInts, <<1>>)>>,
     <<<<"Tags">>, DefVal(TStrings, <<<<"d">>>>)>>}

\* the maps with at most MaxEntries of the entries in E (a set of <<key, value>>)
MapsOf(E) ==
    LET Keys == {e[1] : e \in E}
        Vals == {e[2] : e \in E}
    IN  {m \in UNION {[K -> Vals] : K \in {K \in SUBSET Keys : Cardinality(K) <= MaxEntries}} :
            \A k \in DOMAIN m : <<k, m[k]>> \in E}

DefaultsChoices == MapsOf(DefaultEntries)

\* the defaults maps of the runs
GatherDefaultsChoices ==
    {Empty,
     D(<<"Port">>, DefVal(TInt, 9)),
     D(<<"Name">>, DefVal(TString, <<"d">>)) @@ D(<<"Port">>, DefVal(TInt, 9)),
     D(<<"Name">>, DefVal(TString, <<"d">>)) @@ D(<<"Port">>, DefVal(TString, <<"9">>)),
     D(<<"Name">>, DefVal(TString, <<"d">>)) @@ D(<<"Nope">>, DefVal(TBool, TRUE)),
     D(<<"Port">>, DefVal(TInt, 9)) @@ D(<<"Tags">>, DefVal(TInts, <<1>>))}

ArgsMapChoices ==
    MapsOf({<<swName, <<"Name">>>>, <<swPort, <<"Port">>>>, <<swAlias, <<"Name">>>>,
            <<swPort, <<"Nope">>>>})

VarsMapChoices ==
    MapsOf({<<"NAME", <<"Name">>>>, <<"PORT", <<"Port">>>>, <<"ENV2", <<"Name">>>>,
            <<"NAME", <<"Nope">>>>})

BasePathChoices == {<<>>, baseYml, missingYml, plainTxt, brokenJson}
ArgsFileOverrideChoices == {<<>>, <<swFile>>, <<swFile, swFile2>>, <<swFile2, swFile>>}
EnvOverrideChoices == {<<>>, <<"GO_ENV">>, <<"GO_ENV", "ENV2">>, <<"ENV2", "GO_ENV">>}
EnvSearchPathsChoices == {<<>>, <<dirD>>, <<dirD, dirE>>, <<dirE, dirD>>}
EnvSearchPatternChoices == {<<>>, pattern}
\* what a failing decoder may have written: nothing, or all it read
PartialChoices == {{}, Leaves}

----------------------------------------------------------------------------
(* options.go: ReadOptions.  A ReadOptions value is a record.  A map field  *)
(* holds the address of a map in the heap (NilMap for the nil map): copying *)
(* the value copies the address, not the map.  A slice field is held as the *)
(* sequence of the slice's elements.                                        *)

NilMap == 0

\* Options(): the empty ReadOptions
Options ==
    [ArgsFileOverride |-> <<>>, ArgsMap |-> NilMap, BasePath |-> <<>>,
     DefaultsMap |-> NilMap, EnvOverride |-> <<>>, EnvSearchPaths |-> <<>>,
     VarsMap |-> NilMap]

\* a map on the heap: made by the caller, as the argument of a builder call on
\* ros[recv], or by a builder (`map[string]string{}`); m its entries
HeapMap(owner, recv, m) == [owner |-> owner, recv |-> recv, m |-> m]

\* the entries of the map at address a of the heap h
Entries(h, a) == IF a = NilMap THEN <<>> ELSE h[a].m

\* what a caller reads from the ReadOptions value ro: its strings and slices,
\* and the entries of its maps
View(ro, h) ==
    [ArgsFileOverride |-> ro.ArgsFileOverride, ArgsMap |-> Entries(h, ro.ArgsMap),
     BasePath |-> ro.BasePath, DefaultsMap |-> Entries(h, ro.DefaultsMap),
     EnvOverride |-> ro.EnvOverride, EnvSearchPaths |-> ro.EnvSearchPaths,
     VarsMap |-> Entries(h, ro.VarsMap)]

\* populateMap(&tm, fm) with tm the map at address tm: `(*tm)[k] = v` for
\* every entry of fm
populateMap(h, tm, fm) == [h EXCEPT ![tm].m = Overlay(@, fm)]

NoBuilderCall == [op |-> "Options"]

----------------------------------------------------------------------------
(* Gather *)

\* the steps of Gather, in the order of its body
\* Gather with the environment variables applied before the switches
StepsVarsFirst ==
    <<"determineFieldTypes", "readBaseSettings", "applyDefaultsMap",
      "searchForArgOverrides", "searchForEnvOverrides", "applyVars", "applyArgs">>

\* the statements of Gather, in the order of lines 51-83
Steps ==
    <<"determineFieldTypes", "readBaseSettings", "applyDefaultsMap",
      "searchForArgOverrides", "searchForEnvOverrides", "applyArgs", "applyVars">>

\* the steps that write to the target: the layers
Layers == {Steps[i] : i \in 2..Len(Steps)}

StepIndex(step) == CHOOSE i \in 1..Len(Steps) : Steps[i] = step

\* Gather without its `if err != nil { return err }`
GotoPastErrors(step, e) ==
    IF e.kind = "panic" THEN "panicked"
    ELSE IF StepIndex(step) = Len(Steps) THEN "done"
    ELSE Steps[StepIndex(step) + 1]

\* where Gather is after `step` returned e: `if err != nil { return err }`,
\* else the next statement; a panic unwinds Gather
Goto(step, e) ==
    IF e.kind = "panic" THEN "panicked"
    ELSE IF ~IsOk(e) THEN "failed"
    ELSE IF StepIndex(step) = Len(Steps) THEN "done"
    ELSE Steps[StepIndex(step) + 1]

NoCall == [op |-> "none"]

Init ==
    /\ pc = Steps[1]
    /\ err = NoErr
    /\ outType \in TypeChoices
    /\ target = PresetTarget
    /\ target0 = target
    /\ pre = target
    /\ fieldTypeMap = Empty
    /\ osArgs \in ArgvChoices
    /\ environ \in EnvChoices
    /\ files \in FsChoices
    /\ trace = <<>>
    /\ supplied = [l \in Layers |-> Empty]
    /\ statCalls = 0
    /\ loaded = <<>>
    /\ call = NoCall
    /\ ret = NoCall
    /\ ros = <<Options>>
    /\ heap = <<>>
    /\ lastCall = NoBuilderCall

\* Gather restoring the target it was given when a step fails
FinishRollback(step, r) ==
    /\ trace' = Append(trace, step)
    /\ pre' = target
    /\ target' = IF IsOk(r.err) THEN r.target ELSE target0
    /\ err' = r.err
    /\ pc' = Goto(step, r.err)
    /\ supplied' = IF step \in Layers THEN [supplied EXCEPT ![step] = r.writes]
                   ELSE supplied
    /\ statCalls' = statCalls + Len(r.stats)
    /\ loaded' = loaded \o [i \in 1..Len(r.loads) |-> <<step, r.loads[i]>>]
    /\ UNCHANGED <<outType, target0, osArgs, environ, files, call, ret, optionVars>>

\* the bookkeeping every step shares: r is the step's FResult
Finish(step, r) ==
    /\ trace' = Append(trace, step)
    /\ pre' = target
    /\ target' = r.target
    /\ err' = r.err
    /\ pc' = Goto(step, r.err)
    /\ supplied' = IF step \in Layers THEN [supplied EXCEPT ![step] = r.writes]
                   ELSE supplied
    /\ statCalls' = statCalls + Len(r.stats)
    /\ loaded' = loaded \o [i \in 1..Len(r.loads) |-> <<step, r.loads[i]>>]
    /\ UNCHANGED <<outType, target0, osArgs, environ, files, call, ret, optionVars>>

Plain(r) == FResult(r.err, r.target, r.writes, <<>>, <<>>)

DetermineFieldTypes ==
    /\ pc = "determineFieldTypes"
    /\ \E r \in {determineFieldTypes(outType)} :
          /\ fieldTypeMap' = r.index
          /\ Finish("determineFieldTypes", FResult(r.err, target, Empty, <<>>, <<>>))

ReadBaseSettings ==
    /\ pc = "readBaseSettings"
    /\ \E BasePath \in BasePathChoices, partial \in PartialChoices :
          \E r \in {readBaseSettings(outType, target, files, BasePath, partial)} :
             Finish("readBaseSettings", r)
    /\ UNCHANGED fieldTypeMap

ApplyDefaultsMap ==
    /\ pc = "applyDefaultsMap"
    /\ \E DefaultsMap \in GatherDefaultsChoices :
          \E order \in Orders(DOMAIN DefaultsMap) :
             \E r \in {applyDefaultsMap(outType, fieldTypeMap, target,
                                       DefaultsMap, order)} :
                Finish("applyDefaultsMap", Plain(r))
    /\ UNCHANGED fieldTypeMap

SearchForArgOverrides ==
    /\ pc = "searchForArgOverrides"
    /\ \E ArgsFileOverride \in ArgsFileOverrideChoices, partial \in PartialChoices :
          \E r \in {searchForArgOverrides(outType, target, files, osArgs,
                                         ArgsFileOverride, partial)} :
             Finish("searchForArgOverrides", r)
    /\ UNCHANGED fieldTypeMap

SearchForEnvOverrides ==
    /\ pc = "searchForEnvOverrides"
    /\ \E EnvOverride \in EnvOverrideChoices,
          EnvSearchPaths \in EnvSearchPathsChoices,
          EnvSearchPattern \in EnvSearchPatternChoices,
          partial \in PartialChoices :
          \E r \in {searchForEnvOverrides(outType, target, files, environ,
                                         EnvOverride, EnvSearchPaths,
                                         EnvSearchPattern, partial)} :
             Finish("searchForEnvOverrides", r)
    /\ UNCHANGED fieldTypeMap

ApplyArgs ==
    /\ pc = "applyArgs"
    /\ \E ArgsMap \in ArgsMapChoices :
          \E order \in Orders(DOMAIN ArgsMap) :
             \E r \in {applyArgs(outType, fieldTypeMap, target, osArgs,
                                ArgsMap, order)} :
                Finish("applyArgs", Plain(r))
    /\ UNCHANGED fieldTypeMap

ApplyVars ==
    /\ pc = "applyVars"
    /\ \E VarsMap \in VarsMapChoices :
          \E order \in Orders(DOMAIN VarsMap) :
             \E r \in {applyVars(outType, fieldTypeMap, target, environ,
                                VarsMap, order)} :
                Finish("applyVars", Plain(r))
    /\ UNCHANGED fieldTypeMap

Next ==
    \/ DetermineFieldTypes
    \/ ReadBaseSettings
    \/ ApplyDefaultsMap
    \/ SearchForArgOverrides
    \/ SearchForEnvOverrides
    \/ ApplyArgs
    \/ ApplyVars

Spec == Init /\ [][Next]_vars

----------------------------------------------------------------------------
(* Direct calls of the methods, each on inputs drawn from small sets: one   *)
(* call per behaviour, call holds its inputs, ret what the method returned  *)

ValueChars == {"=", "'", "\"", "a", "1"}

\* the strings of at most n characters over ValueChars
Values(n) == UNION {[1..k -> ValueChars] : k \in 0..n}

\* the targets a method may be called on
CallTypes == {<<"Ptr", "Struct">>, <<"Struct">>, <<"Map", "Struct">>}
CallTargets == {ZeroTarget, PresetTarget}

\* the index Gather has built when it calls the methods
ConfigIndex == determineFieldTypes(<<"Ptr", "Struct">>).index

\* the index determineFieldTypes builds for a record of type root
fieldTypes(root) ==
    LET pairs == UNION {iterateFields(<<>>, root.fields[i]) : i \in 1..Len(root.fields)}
    IN  [p \in {e[1] : e \in pairs} |-> (CHOOSE e \in pairs : e[1] = p)[2]]

\* a record with a leaf of every integer kind, slices, and an array:
\*   struct { Numbers struct { I int; I8 int8; I16 int16; I32 int32; I64 int64;
\*                             U uint; U8 uint8; U16 uint16; U32 uint32; U64 uint64 }
\*            Lists struct { B []bool; I8 []int8; U []uint; U8 []uint8; S []string;
\*                           T []struct{}; F []float64; D []time.Time }
\*            Pair [2]int }
verboseConfig ==
    Type("verboseConfig", "Struct", 0, "",
         <<Field("Numbers",
                 Type("struct{I..U64}", "Struct", 0, "",
                      <<Field("I", TInt), Field("I8", TInt8),
                        Field("I16", Type("int16", "Int16", 16, "", <<>>)),
                        Field("I32", Type("int32", "Int32", 32, "", <<>>)),
                        Field("I64", TInt64),
                        Field("U", Type("uint", "Uint", 64, "", <<>>)),
                        Field("U8", TUint8),
                        Field("U16", Type("uint16", "Uint16", 16, "", <<>>)),
                        Field("U32", Type("uint32", "Uint32", 32, "", <<>>)),
                        Field("U64", TUint64)>>)),
           Field("Lists",
                 Type("struct{B..T}", "Struct", 0, "",
                      <<Field("B", Type("[]bool", "Slice", 0, "Bool", <<>>)),
                        Field("I8", Type("[]int8", "Slice", 0, "Int8", <<>>)),
                        Field("U", Type("[]uint", "Slice", 0, "Uint", <<>>)),
                        Field("U8", Type("[]uint8", "Slice", 0, "Uint8", <<>>)),
                        Field("S", TStrings),
                        Field("T", Type("[]struct{}", "Slice", 0, "Struct", <<>>)),
                        Field("F", Type("[]float64", "Slice", 0, "Float64", <<>>)),
                        Field("D", Type("[]time.Time", "Slice", 0, "Struct", <<>>))>>)),
           Field("Pair", Type("[2]int", "Array", 0, "Int", <<>>))>>)

VerboseIndex == fieldTypes(verboseConfig)

\* a verboseConfig the caller filled in: every number 5, every list of three
\* elements
VerboseTarget ==
    [p \in DOMAIN VerboseIndex |->
        LET t == VerboseIndex[p]
            five == CASE t.elem = "Bool" -> TRUE
                      [] t.elem = "String" -> <<"i">>
                      [] OTHER -> 5
        IN  CASE t.kind = "Slice" -> <<five, five, five>>
              [] t.kind = "Array" -> <<5, 5>>
              [] OTHER -> 5]

\* integer literals as strconv reads them with base 0, each with the number
\* it denotes
NumberLiterals ==
    {<<<<"0">>, 0>>,
     <<<<"1">>, 1>>,
     <<<<"+", "1">>, 1>>,
     <<<<"-", "1">>, -1>>,
     <<<<"1", "2", "7">>, 127>>,
     <<<<"1", "2", "8">>, 128>>,
     <<<<"-", "1", "2", "8">>, -128>>,
     <<<<"-", "1", "2", "9">>, -129>>,
     <<<<"2", "5", "5">>, 255>>,
     <<<<"2", "5", "6">>, 256>>,
     <<<<"0", "x", "7", "f">>, 127>>,
     <<<<"0", "X", "8", "0">>, 128>>,
     <<<<"-", "0", "x", "8", "0">>, -128>>,
     <<<<"0", "1", "7">>, 15>>,
     <<<<"0", "b", "1", "1">>, 3>>,
     <<<<"0", "o", "1", "7">>, 15>>,
     <<<<"3", "2", "7", "6", "7">>, 32767>>,
     <<<<"3", "2", "7", "6", "8">>, 32768>>,
     <<<<"-", "3", "2", "7", "6", "8">>, -32768>>,
     <<<<"6", "5", "5", "3", "5">>, 65535>>,
     <<<<"6", "5", "5", "3", "6">>, 65536>>}

\* strings that denote no integer
NotNumbers == {<<>>, <<"a">>, <<"1", "a">>, <<"-", "-", "1">>, <<"0", "x">>, <<"1", ".", "5">>, <<"0", "9">>}

\* values for slices, each with the pieces the commas cut it into
ListLiterals ==
    {<<<<"1", ",", "2">>, <<<<"1">>, <<"2">>>>>>,
     <<<<"1", ",", " ", "2">>, <<<<"1">>, <<"2">>>>>>,
     <<<<"2", ",", "1", ",", "0">>, <<<<"2">>, <<"1">>, <<"0">>>>>>,
     <<<<"1", ",", "a", ",", "2">>, <<<<"1">>, <<"a">>, <<"2">>>>>>,
     <<<<"1", ",", ",", "2">>, <<<<"1">>, <<>>, <<"2">>>>>>,
     <<<<"1", ",", " ", " ", "2">>, <<<<"1">>, <<" ", "2">>>>>>,
     <<<<"a", ",", "b">>, <<<<"a">>, <<"b">>>>>>,
     <<<<"t", ",", "f", ",", " ", "t">>, <<<<"t">>, <<"f">>, <<"t">>>>>>,
     <<<<"1", ",", "3", "0", "0">>, <<<<"1">>, <<"3", "0", "0">>>>>>,
     <<<<"-", "1", ",", "1">>, <<<<"-", "1">>, <<"1">>>>>>,
     <<<<"1", ",">>, <<<<"1">>, <<>>>>>>,
     <<<<"7">>, <<<<"7">>>>>>,
     <<<<>>, <<<<>>>>>>}

InitUnit ==
    /\ pc = "idle"
    /\ err = NoErr
    /\ outType = <<"Ptr", "Struct">>
    /\ target = ZeroTarget
    /\ target0 = target
    /\ pre = target
    /\ fieldTypeMap = ConfigIndex
    /\ osArgs = <<cmd>>
    /\ environ = Env(<<>>, <<>>, <<>>, <<>>)
    /\ files = FixedFiles
    /\ trace = <<>>
    /\ supplied = [l \in Layers |-> Empty]
    /\ statCalls = 0
    /\ loaded = <<>>
    /\ call = NoCall
    /\ ret = NoCall
    /\ ros = <<Options>>
    /\ heap = <<>>
    /\ lastCall = NoBuilderCall

CallCleanArgValue ==
    /\ call = NoCall
    /\ \E v \in Values(MaxValLen + 2) :
          /\ call' = [op |-> "cleanArgValue", v |-> v]
          /\ ret' = cleanArgValue(v)
    /\ UNCHANGED <<gatherVars, optionVars>>

CallSetFieldValue ==
    /\ call = NoCall
    /\ \E ot \in CallTypes, tgt \in CallTargets,
          fieldPath \in DOMAIN ConfigIndex \cup {<<"Nope">>, <<"Created">>},
          sVal \in Values(MaxValLen) \cup {Timestamp} :
          /\ call' = [op |-> "setFieldValue", ot |-> ot, target |-> tgt,
                      fieldPath |-> fieldPath, sVal |-> sVal]
          /\ ret' = setFieldValue(ot, ConfigIndex, tgt, fieldPath, sVal)
    /\ UNCHANGED <<gatherVars, optionVars>>

\* setFieldValue on a verboseConfig: a number, or a string that is none, for
\* any leaf; a list for the slices and the array; a time of day
CallSetFieldValueVerbose ==
    /\ call = NoCall
    /\ \E ot \in {<<"Ptr", "Struct">>, <<"Struct">>}, fieldPath \in DOMAIN VerboseIndex,
          lit \in {<<l[1], <<l[2]>>, <<>>>> : l \in NumberLiterals} \cup
                  {<<s, <<>>, <<>>>> : s \in NotNumbers} \cup
                  {<<l[1], <<>>, l[2]>> : l \in ListLiterals} \cup
                  {<<Timestamp, <<>>, <<>>>>} :
          /\ call' = [op |-> "setFieldValue(verboseConfig)", ot |-> ot,
                      target |-> VerboseTarget, fieldPath |-> fieldPath,
                      sVal |-> lit[1], denotes |-> lit[2], pieces |-> lit[3]]
          /\ ret' = setFieldValue(ot, VerboseIndex, VerboseTarget, fieldPath, lit[1])
    /\ UNCHANGED <<gatherVars, optionVars>>

\* the file system of the direct calls that read files: the files that are
\* always there, n.yml that os.Stat fails on, r.json and r.txt that
\* ioutil.ReadFile fails on
UnitFiles ==
    Overlay(FixedFiles,
            ((<<"n">> \o yml) :> File("denied", D(<<"Name">>, <<"n">>))) @@
            ((<<"r">> \o json) :> File("unreadable", D(<<"Name">>, <<"r">>))) @@
            (<<"r", ".", "t", "x", "t">> :> File("unreadable", D(<<"Name">>, <<"r">>))))

CallReadBaseSettings ==
    /\ call = NoCall
    /\ \E ot \in {<<"Ptr", "Struct">>, <<"Struct">>}, tgt \in CallTargets,
          path \in BasePathChoices \cup DOMAIN UnitFiles,
          partial \in PartialChoices :
          /\ call' = [op |-> "readBaseSettings", ot |-> ot, target |-> tgt,
                      fs |-> UnitFiles, path |-> path, partial |-> partial]
          /\ ret' = readBaseSettings(ot, tgt, UnitFiles, path, partial)
    /\ UNCHANGED <<gatherVars, optionVars>>

\* the argument lists of the direct searchForArgOverrides calls: the program
\* name, then up to two occurrences of a trigger, each as `s x` or as `s=x`,
\* x a path, the empty string, a quote or an equals sign
FileArgv ==
    LET x == {overJson, overYml, missingYml, <<>>, <<"'">>, <<"=">>}
        one == {<<>>} \cup
               UNION {{<<s \o <<"=">> \o v>>, <<s, v>>} : s \in {swFile, swFile2}, v \in x}
    IN  {<<cmd>> \o t \o u : t \in one, u \in one}

CallSearchForArgOverrides ==
    /\ call = NoCall
    /\ \E ArgsFileOverride \in ArgsFileOverrideChoices, args \in FileArgv :
          /\ call' = [op |-> "searchForArgOverrides", ot |-> <<"Ptr", "Struct">>,
                      target |-> PresetTarget, fs |-> UnitFiles, args |-> args,
                      ArgsFileOverride |-> ArgsFileOverride]
          /\ ret' = searchForArgOverrides(<<"Ptr", "Struct">>, PresetTarget, UnitFiles,
                                          args, ArgsFileOverride, {})
    /\ UNCHANGED <<gatherVars, optionVars>>

CallApplyDefaultsMap ==
    /\ call = NoCall
    /\ \E ot \in CallTypes, tgt \in CallTargets, d \in DefaultsChoices :
          \E order \in Orders(DOMAIN d) :
             /\ call' = [op |-> "applyDefaultsMap", ot |-> ot, target |-> tgt,
                         d |-> d, order |-> order]
             /\ ret' = applyDefaultsMap(ot, ConfigIndex, tgt, d, order)
    /\ UNCHANGED <<gatherVars, optionVars>>

\* the argument lists of the direct applyArgs calls: the program name, then up
\* to two switches of the map, each given as `s x` or as `s=x`
CallArgv(a) ==
    LET one(s) == {<<s \o <<"=">> \o x>> : x \in Values(1)} \cup
                  {<<s, x>> : x \in Values(1)} \cup {<<s>>}
    IN  {<<cmd>>} \cup
        UNION {{<<cmd>> \o t : t \in one(s)} : s \in DOMAIN a} \cup
        UNION {{<<cmd>> \o t \o u : t \in one(sr[1]), u \in one(sr[2])} :
                  sr \in {p \in (DOMAIN a) \X (DOMAIN a) : p[1] # p[2]}}

CallApplyArgs ==
    /\ call = NoCall
    /\ \E tgt \in CallTargets, a \in ArgsMapChoices :
          \E order \in Orders(DOMAIN a), args \in CallArgv(a) :
             /\ call' = [op |-> "applyArgs", ot |-> <<"Ptr", "Struct">>, target |-> tgt,
                         a |-> a, order |-> order, args |-> args]
             /\ ret' = applyArgs(<<"Ptr", "Struct">>, ConfigIndex, tgt, args, a, order)
    /\ UNCHANGED <<gatherVars, optionVars>>

CallApplyVars ==
    /\ call = NoCall
    /\ \E tgt \in CallTargets, v \in VarsMapChoices, env \in EnvChoices :
          \E order \in Orders(DOMAIN v) :
             /\ call' = [op |-> "applyVars", ot |-> <<"Ptr", "Struct">>, target |-> tgt,
                         v |-> v, order |-> order, env |-> env]
             /\ ret' = applyVars(<<"Ptr", "Struct">>, ConfigIndex, tgt, env, v, order)
    /\ UNCHANGED <<gatherVars, optionVars>>

\* applyArgs on the one token form and on the two token form of the same
\* switch and value
CallApplyArgsForms ==
    /\ call = NoCall
    /\ \E tgt \in CallTargets, s \in {swName, swPort}, x \in Values(MaxValLen) :
          LET a == (swName :> <<"Name">>) @@ (swPort :> <<"Port">>) @@
                   (swAlias :> <<"Nope">>)
              run(args) == applyArgs(<<"Ptr", "Struct">>, ConfigIndex, tgt, args,
                                     a, <<s>>)
          IN  /\ call' = [op |-> "applyArgsForms", target |-> tgt, s |-> s, x |-> x]
              /\ ret' = [one |-> run(<<cmd, s \o <<"=">> \o x>>),
                         two |-> run(<<cmd, s, x>>)]
    /\ UNCHANGED <<gatherVars, optionVars>>

\* a file system in which os.Stat fails on d/t.yml for another reason than
\* absence and the decoder fails on d/t.yaml
BrokenEnvFiles ==
    Overlay(FixedFiles,
            (Join(dirD, <<"t">> \o yml) :> File("denied", D(<<"Name">>, <<"t">>))) @@
            (Join(dirD, <<"t">> \o yaml) :> File("corrupt", D(<<"Name">>, <<"y">>))) @@
            (Join(dirE, <<"t">> \o json) :> File("ok", D(<<"Port">>, 3))))

CallSearchForEnvOverrides ==
    /\ call = NoCall
    /\ \E fs \in FsChoices \cup {BrokenEnvFiles}, env \in EnvChoices,
          EnvOverride \in EnvOverrideChoices,
          EnvSearchPaths \in EnvSearchPathsChoices,
          EnvSearchPattern \in EnvSearchPatternChoices :
          /\ call' = [op |-> "searchForEnvOverrides", target |-> PresetTarget,
                      fs |-> fs, env |-> env, EnvOverride |-> EnvOverride,
                      EnvSearchPaths |-> EnvSearchPaths,
                      EnvSearchPattern |-> EnvSearchPattern]
          /\ ret' = searchForEnvOverrides(<<"Ptr", "Struct">>, PresetTarget, fs, env,
                                          EnvOverride, EnvSearchPaths,
                                          EnvSearchPattern, {})
    /\ UNCHANGED <<gatherVars, optionVars>>

NextUnit ==
    \/ CallCleanArgValue
    \/ CallSetFieldValue
    \/ CallSetFieldValueVerbose
    \/ CallReadBaseSettings
    \/ CallSearchForArgOverrides
    \/ CallApplyDefaultsMap
    \/ CallApplyArgs
    \/ CallApplyVars
    \/ CallApplyArgsForms
    \/ CallSearchForEnvOverrides

SpecUnit == InitUnit /\ [][NextUnit]_vars

----------------------------------------------------------------------------
(* options.go: the builders.  The caller starts with Options() and calls a  *)
(* builder on any value it holds; it keeps every value it got, and every    *)
(* map it passed.                                                           *)

\* the largest number of builder calls in a behaviour
MaxBuilderCalls == 3

\* the variadic `rewrite ...bool`
RewriteChoices == {<<>>, <<FALSE>>, <<TRUE>>}

\* the maps and lists the caller passes
OptionArgsMaps ==
    {D(swName, <<"Name">>), D(swName, <<"Nope">>) @@ D(swPort, <<"Port">>)}
OptionVarsMaps ==
    {D("NAME", <<"Name">>), D("NAME", <<"Nope">>) @@ D("PORT", <<"Port">>)}
OptionDefaultsMaps ==
    {D(<<"Port">>, DefVal(TInt, 9)),
     D(<<"Port">>, DefVal(TString, <<"9">>)) @@ D(<<"Name">>, DefVal(TString, <<"d">>))}
OptionSwitches == {<<swFile>>, <<swFile2, swFile>>}
OptionVars == {<<"GO_ENV">>, <<"ENV2", "GO_ENV">>}

\* the builder `op` called on ros[i] with arg returned ro and left the heap h
Returned(op, i, arg, ro, h) ==
    /\ ros' = Append(ros, ro)
    /\ heap' = h
    /\ lastCall' = [op |-> op, recv |-> i, arg |-> arg,
                    before |-> [j \in 1..Len(ros) |-> View(ros[j], heap)]]
    /\ UNCHANGED <<gatherVars, unitVars>>

\* the body SetArgsMap, SetVarsMap and SetDefaultsMap share, for the map field
\* `field`; fm is the address of the map the caller passes
setMap(ro, h, field, fm, rewrite) ==
    LET \* `if ro.ArgsMap == nil { ro.ArgsMap = map[string]string{} }`
        made == IF ro[field] = NilMap THEN Append(h, HeapMap("builder", 0, <<>>))
                ELSE h
        tm == IF ro[field] = NilMap THEN Len(h) + 1 ELSE ro[field]
    IN  IF Len(rewrite) = 0 \/ ~rewrite[1]
        THEN [ro |-> [ro EXCEPT ![field] = tm],
              heap |-> populateMap(made, tm, made[fm].m)]
        ELSE [ro |-> [ro EXCEPT ![field] = fm], heap |-> made]

SetArgsFileOverride ==
    /\ Len(ros) <= MaxBuilderCalls
    /\ \E i \in 1..Len(ros), args \in OptionSwitches :
          Returned("SetArgsFileOverride", i, args,
                   [ros[i] EXCEPT !.ArgsFileOverride = ros[i].ArgsFileOverride \o args],
                   heap)

SetArgsMap ==
    /\ Len(ros) <= MaxBuilderCalls
    /\ \E i \in 1..Len(ros), argsMap \in OptionArgsMaps, rewrite \in RewriteChoices :
          \E r \in {setMap(ros[i], Append(heap, HeapMap("caller", i, argsMap)),
                           "ArgsMap", Len(heap) + 1, rewrite)} :
             Returned("SetArgsMap", i, Len(heap) + 1, r.ro, r.heap)

SetBasePath ==
    /\ Len(ros) <= MaxBuilderCalls
    /\ \E i \in 1..Len(ros), path \in {baseYml, missingYml} :
          Returned("SetBasePath", i, path, [ros[i] EXCEPT !.BasePath = path], heap)

SetDefaultsMap ==
    /\ Len(ros) <= MaxBuilderCalls
    /\ \E i \in 1..Len(ros), defMap \in OptionDefaultsMaps, rewrite \in RewriteChoices :
          \E r \in {setMap(ros[i], Append(heap, HeapMap("caller", i, defMap)),
                           "DefaultsMap", Len(heap) + 1, rewrite)} :
             Returned("SetDefaultsMap", i, Len(heap) + 1, r.ro, r.heap)

\* `ro.EnvOverride = append(ro.ArgsFileOverride, vars...)`
SetEnvOverride ==
    /\ Len(ros) <= MaxBuilderCalls
    /\ \E i \in 1..Len(ros), evars \in OptionVars :
          Returned("SetEnvOverride", i, evars,
                   [ros[i] EXCEPT !.EnvOverride = ros[i].ArgsFileOverride \o evars],
                   heap)

SetEnvSearchPaths ==
    /\ Len(ros) <= MaxBuilderCalls
    /\ \E i \in 1..Len(ros), paths \in {<<dirD>>, <<dirE, dirD>>} :
          Returned("SetEnvSearchPaths", i, paths,
                   [ros[i] EXCEPT !.EnvSearchPaths = ros[i].EnvSearchPaths \o paths],
                   heap)

SetVarsMap ==
    /\ Len(ros) <= MaxBuilderCalls
    /\ \E i \in 1..Len(ros), varsMap \in OptionVarsMaps, rewrite \in RewriteChoices :
          \E r \in {setMap(ros[i], Append(heap, HeapMap("caller", i, varsMap)),
                           "VarsMap", Len(heap) + 1, rewrite)} :
             Returned("SetVarsMap", i, Len(heap) + 1, r.ro, r.heap)

\* the caller changes a map it passed to a builder: it deletes the map's entries
CallerClearsMap ==
    /\ \E a \in 1..Len(heap) :
          /\ heap[a].owner = "caller"
          /\ heap[a].m # <<>>
          /\ heap' = [heap EXCEPT ![a].m = <<>>]
          /\ lastCall' = [op |-> "clear", recv |-> heap[a].recv, arg |-> a,
                          before |-> [j \in 1..Len(ros) |-> View(ros[j], heap)]]
    /\ UNCHANGED <<gatherVars, unitVars, ros>>

InitOptions == InitUnit

NextOptions ==
    \/ SetArgsFileOverride
    \/ SetArgsMap
    \/ SetBasePath
    \/ SetDefaultsMap
    \/ SetEnvOverride
    \/ SetEnvSearchPaths
    \/ SetVarsMap
    \/ CallerClearsMap

SpecOptions == InitOptions /\ [][NextOptions]_vars

----------------------------------------------------------------------------
(* Properties of a Gather run (Spec) *)

\* the order of the steps as the documentation gives it
GatherOrder ==
    <<"determineFieldTypes", "readBaseSettings", "applyDefaultsMap",
      "searchForArgOverrides", "searchForEnvOverrides", "applyArgs", "applyVars">>

Terminal == {"done", "failed", "panicked"}

\* C1: Gather runs its steps in the one fixed order (index, base file,
\* DefaultsMap, command line files, environment file, ArgsMap, VarsMap); a step
\* starts only after the one before it returned without error, Gather ends
\* with an error exactly when its last step returned one, and once it has
\* returned no step runs.
C1_FixedOrderFirstErrorEnds ==
    /\ [](/\ trace = SubSeq(GatherOrder, 1, Len(trace))
          /\ pc \notin Terminal => IsOk(err) /\ pc = GatherOrder[Len(trace) + 1]
          /\ pc = "done" => IsOk(err) /\ trace = GatherOrder
          /\ pc = "failed" => ~IsOk(err) /\ err # Panic /\ trace # <<>>)
    /\ [][pc \notin Terminal /\ trace' = Append(trace, pc)]_vars

\* a run that failed in the environment file step, after four steps went through
C1_Witness == pc = "failed" /\ Len(trace) = 5

\* the layers from the weakest to the strongest
PrecedenceOrder ==
    <<"readBaseSettings", "applyDefaultsMap", "searchForArgOverrides",
      "searchForEnvOverrides", "applyArgs", "applyVars">>

\* the ranks of the layers that wrote the field f
SetBy(f) == {i \in 1..Len(PrecedenceOrder) : f \in DOMAIN supplied[PrecedenceOrder[i]]}

Max(S) == CHOOSE x \in S : \A y \in S : y <= x

C3_NoRollback ==
    pc = "failed" =>
        \A f \in Leaves :
            target[f] = IF SetBy(f) = {} THEN target0[f]
                        ELSE supplied[PrecedenceOrder[Max(SetBy(f))]][f]

\* a run that failed in its fifth step or later with earlier writes in the target
C3_Witness ==
    /\ pc = "failed"
    /\ Len(trace) >= 5
    /\ pre # target0
    /\ target[<<"Name">>] # target0[<<"Name">>]
    /\ target[<<"Port">>] # target0[<<"Port">>]

\* what C4 says of a run whose target is of type ot
FailsInIndexStep ==
    /\ pc = "failed"
    /\ err = SettingsTypeDiscoveryError
    /\ trace = <<"determineFieldTypes">>
    /\ statCalls = 0
    /\ loaded = <<>>
    /\ target = target0

EnvLoads == {i \in 1..Len(loaded) : loaded[i][1] = "searchForEnvOverrides"}

\* C8: the environment file step loads at most one file per run.
C8_AtMostOneEnvFile == Cardinality(EnvLoads) <= 1

\* the ranks of the layers other than the DefaultsMap that wrote the field f
SetByOthers(f) == SetBy(f) \ {2}

\* C20: a DefaultsMap entry gives a field its value only when no other layer
\* gives it one: after a successful run a field that the base file or another
\* layer wrote holds the value of the strongest of those layers, not the value
\* of the DefaultsMap.
C20_DefaultsOnlyFillGaps ==
    pc = "done" =>
        \A f \in Leaves :
            (f \in DOMAIN supplied["applyDefaultsMap"] /\ SetByOthers(f) # {})
                => target[f] = supplied[PrecedenceOrder[Max(SetByOthers(f))]][f]

----------------------------------------------------------------------------
(* Properties of the methods called on their own (SpecUnit) *)

PtrToConfig == <<"Ptr", "Struct">>

\* a location the reflect package lets the program set: reached through a
\* pointer, every field on the way exported
Settable(ot, p) == ot = PtrToConfig /\ \A i \in 1..Len(p) : Exported(p[i])

\* a defaults map entry that passes the three checks the claim C5 lists
EntryValidates(ot, d, k) ==
    /\ k \in DOMAIN ConfigIndex
    /\ ConfigIndex[k].kind = KindOf(d[k])
    /\ Settable(ot, k)

\* C5: applyDefaultsMap is all or nothing: with an entry that fails a check
\* (unknown path, other kind, location not settable) it returns an error and
\* the target is as it was; with every entry passing, it returns nil and every
\* entry's value is in the target.
C5_AllOrNothing ==
    call.op = "applyDefaultsMap" =>
        IF \A k \in DOMAIN call.d : EntryValidates(call.ot, call.d, k)
        THEN /\ IsOk(ret.err)
             /\ \A k \in DOMAIN call.d : ret.target[k] = ValueOf(call.d[k])
        ELSE /\ ~IsOk(ret.err)
             /\ ret.err # Panic
             /\ ret.target = call.target

Unknown(p) == p \notin DOMAIN ConfigIndex

\* the keys of the map of the call whose entry the applier gets to apply: every
\* key of a defaults map, the switches that occur in the arguments with a
\* value, the variables that are set
AppliedKeys ==
    CASE call.op = "applyDefaultsMap" -> DOMAIN call.d
      [] call.op = "applyArgs" ->
            {sw \in DOMAIN call.a : scanArgs(call.args, sw, 1).m}
      [] call.op = "applyVars" ->
            {e \in DOMAIN call.v : call.env[e] # <<>>}
      [] OTHER -> {}

\* the path the map of the call gives the key k
PathOf(k) ==
    CASE call.op = "applyDefaultsMap" -> k
      [] call.op = "applyArgs" -> call.a[k]
      [] call.op = "applyVars" -> call.v[k]

UnknownApplied == \E k \in AppliedKeys : Unknown(PathOf(k))

\* the first key of AppliedKeys in the order the map was visited
FirstApplied ==
    call.order[CHOOSE i \in 1..Len(call.order) :
                   /\ call.order[i] \in AppliedKeys
                   /\ \A j \in 1..(i - 1) : call.order[j] \notin AppliedKeys]

ScalarKinds == {"Bool", "String"} \cup SignedKinds \cup UnsignedKinds \cup FloatKinds

\* C7: setFieldValue with the empty string for a scalar leaf is skipped: it
\* returns nil and the field, like every other field, keeps its value.
C7_ZeroSkip ==
    (/\ call.op = "setFieldValue"
     /\ call.sVal = <<>>
     /\ call.fieldPath \in DOMAIN ConfigIndex
     /\ ConfigIndex[call.fieldPath].kind \in ScalarKinds
     /\ Settable(call.ot, call.fieldPath))
        => /\ IsOk(ret.err)
           /\ ret.target = call.target

\* C9: with EnvSearchPattern set, and in the search directory both the file
\* named after the environment and the file the pattern names, only the file
\* named after the environment is loaded.
C9_BareNameWins ==
    (/\ call.op = "searchForEnvOverrides"
     /\ call.EnvSearchPattern = pattern
     /\ Len(call.EnvOverride) = 1
     /\ Len(call.EnvSearchPaths) = 1
     /\ call.env[call.EnvOverride[1]] # <<>>
     /\ Join(call.EnvSearchPaths[1], call.env[call.EnvOverride[1]] \o yml)
           \in DOMAIN call.fs
     /\ Join(call.EnvSearchPaths[1],
             Sprintf(pattern, call.env[call.EnvOverride[1]]) \o yml)
           \in DOMAIN call.fs)
        => ret.loads =
              <<Join(call.EnvSearchPaths[1], call.env[call.EnvOverride[1]] \o yml)>>

\* C10: the arguments `s=x` and `s x` are processed the same: applyArgs
\* returns the same error and leaves the same target for both.
C10_SameBothForms ==
    call.op = "applyArgsForms" =>
        /\ ret.one.err = ret.two.err
        /\ ret.one.target = ret.two.target

\* the token i of args is the switch sw with a value: `sw=...`, or sw with a
\* token after it
OccursAt(args, sw, i) ==
    \/ args[i] = sw /\ i < Len(args)
    \/ /\ Len(args[i]) > Len(sw)
       /\ SubSeq(args[i], 1, Len(sw) + 1) = sw \o <<"=">>

\* the switch sw occurs in args with a value
HasValue(args, sw) == \E i \in 1..Len(args) : OccursAt(args, sw, i)

\* the switches of the map of an applyArgs call that have no value in its arguments
Unmatched == {sw \in DOMAIN call.a : ~HasValue(call.args, sw)}

\* C11: an ArgsMap switch that is not among the arguments, or is only their
\* last token with nothing after it and in no `=` form, causes no write and no
\* error: with no other switch given applyArgs returns nil and the target is as
\* it was; the field the switch maps to changes only if another switch that is
\* given maps to it; and SettingsFieldDoesNotExist is returned only for a
\* switch that is given.
C11_UnmatchedSwitchSkipped ==
    call.op = "applyArgs" =>
        /\ Unmatched = DOMAIN call.a =>
              IsOk(ret.err) /\ ret.target = call.target
        /\ \A sw \in Unmatched :
              (/\ call.a[sw] \in Leaves
               /\ \A o \in DOMAIN call.a \ Unmatched : call.a[o] # call.a[sw])
                  => ret.target[call.a[sw]] = call.target[call.a[sw]]
        /\ ret.err = SettingsFieldDoesNotExist =>
              \E sw \in DOMAIN call.a \ Unmatched : Unknown(call.a[sw])

\* the switch of an unknown path was the last argument, and applyArgs returned nil
C11_Witness ==
    /\ call.op = "applyArgs"
    /\ call.args = <<cmd, swPort>>
    /\ swPort \in DOMAIN call.a
    /\ call.a[swPort] = <<"Nope">>
    /\ call.target = PresetTarget
    /\ IsOk(ret.err)
    /\ ret.target = PresetTarget

SetFieldValueCalls == {"setFieldValue", "setFieldValue(verboseConfig)"}

\* C12: whenever setFieldValue returns a SettingsFieldSetError, for a scalar
\* or an element of a slice that does not parse, every field of the target
\* holds the value it had before the call; and when applyArgs or applyVars
\* returns that error for the value given for Port, Port holds the value it
\* had when the applier was called.
C12_SetErrorWritesNothing ==
    /\ (call.op \in SetFieldValueCalls /\ ret.err.kind = "SettingsFieldSetError") =>
          /\ ret.target = call.target
          /\ ~ret.wrote
    /\ (call.op \in {"applyArgs", "applyVars"}
            /\ ret.err = SettingsFieldSetError(TRUE)) =>
          ret.target[<<"Port">>] = call.target[<<"Port">>]

\* the second element of a list for a slice of int8 did not parse
C12_Witness ==
    /\ call.op = "setFieldValue(verboseConfig)"
    /\ call.fieldPath = <<"Lists", "I8">>
    /\ call.sVal = <<"1", ",", "a", ",", "2">>
    /\ call.ot = PtrToConfig
    /\ ret.err = SettingsFieldSetError(TRUE)
    /\ ret.target[<<"Lists", "I8">>] = <<5, 5, 5>>

IntegerKinds == SignedKinds \cup UnsignedKinds

\* the number n is a value of the integer kind k
Representable(k, n) ==
    IF k \in SignedKinds
    THEN 0 - Pow2(BitsOf(k) - 1) <= n /\ n < Pow2(BitsOf(k) - 1)
    ELSE 0 <= n /\ n < Pow2(BitsOf(k))

\* C13: for an integer leaf of any width and signedness and a string that
\* denotes the integer n, setFieldValue writes exactly n when the leaf's type
\* has the value n, and otherwise returns SettingsFieldSetError and writes
\* nothing; no wrapped or sign converted value is ever written.
C13_ExactOrError ==
    (/\ call.op = "setFieldValue(verboseConfig)"
     /\ call.ot = PtrToConfig
     /\ call.denotes # <<>>
     /\ VerboseIndex[call.fieldPath].kind \in IntegerKinds)
        => IF Representable(VerboseIndex[call.fieldPath].kind, call.denotes[1])
           THEN /\ IsOk(ret.err)
                /\ ret.target = [call.target EXCEPT ![call.fieldPath] = call.denotes[1]]
           ELSE /\ ret.err = SettingsFieldSetError(TRUE)
                /\ ret.target = call.target

\* the element kinds the slice case of setFieldValue has a case for
SupportedElems == {"Bool", "String"} \cup IntegerKinds \cup FloatKinds

\* C14: for a sequence leaf (a slice or an array) with a supported element
\* type, setFieldValue cuts the string at each comma, with one white space
\* after it if there is one, and writes a sequence with exactly one element
\* per piece, in the order of the pieces, in place of the field's previous
\* sequence; when a piece fails it returns SettingsFieldSetError and nothing is
\* written.
C14_OnePerPiece ==
    (/\ call.op = "setFieldValue(verboseConfig)"
     /\ call.ot = PtrToConfig
     /\ call.pieces # <<>>
     /\ VerboseIndex[call.fieldPath].kind \in {"Array", "Slice"}
     /\ VerboseIndex[call.fieldPath].elem \in SupportedElems)
        => LET el(i) == coerceElem(VerboseIndex[call.fieldPath].elem, call.pieces[i])
               n == Len(call.pieces)
           IN  IF \A i \in 1..n : IsOk(el(i).err)
               THEN /\ IsOk(ret.err)
                    /\ ret.target =
                          [call.target EXCEPT ![call.fieldPath] = [i \in 1..n |-> el(i).v]]
               ELSE /\ ret.err = SettingsFieldSetError(TRUE)
                    /\ ret.target = call.target

\* C15: a time.Time field at path P is a leaf of the index: P is a key, its
\* type is time.Time, no key lies below P; and setFieldValue for P parses the
\* string as RFC 3339 and writes the time to P, and returns
\* SettingsFieldSetError for a string in another layout.
C15_TimestampIsLeaf ==
    /\ <<"Created">> \in DOMAIN ConfigIndex
    /\ ConfigIndex[<<"Created">>] = timeType
    /\ \A p \in DOMAIN ConfigIndex : p[1] = "Created" => p = <<"Created">>
    /\ (/\ call.op = "setFieldValue"
        /\ call.fieldPath = <<"Created">>
        /\ call.ot = PtrToConfig)
          => IF call.sVal = Timestamp
             THEN /\ IsOk(ret.err)
                  /\ ret.target = [call.target EXCEPT ![<<"Created">>] = [time |-> 1]]
             ELSE ret.err = SettingsFieldSetError(TRUE)

\* the string s ends with e
EndsWith(s, e) == Len(s) >= Len(e) /\ SubSeq(s, Len(s) - Len(e) + 1, Len(s)) = e

SupportedExt(path) == \E e \in {yml, yaml, json} : EndsWith(path, e)

\* C16: readBaseSettings with the empty path returns nil, touches no file and
\* leaves the target as it was; with the path of a file that does not exist it
\* returns the not-found error of os.Stat itself; when os.Stat fails for
\* another reason, or the file (of a supported type) cannot be read, it
\* returns SettingsFileReadError.
C16_BaseFileErrors ==
    call.op = "readBaseSettings" =>
        /\ call.path = <<>> =>
              /\ IsOk(ret.err)
              /\ ret.target = call.target
              /\ ret.stats = <<>> /\ ret.loads = <<>>
        /\ (call.path # <<>> /\ call.path \notin DOMAIN call.fs) =>
              /\ ret.err = ErrNotExist
              /\ ret.target = call.target
        /\ (call.path \in DOMAIN call.fs /\ call.fs[call.path].status = "denied") =>
              /\ ret.err = SettingsFileReadError
              /\ ret.target = call.target
        /\ (/\ call.path \in DOMAIN call.fs
            /\ call.fs[call.path].status = "unreadable"
            /\ SupportedExt(call.path)) =>
              /\ ret.err = SettingsFileReadError
              /\ ret.target = call.target

\* the base file was not there: the error of os.Stat came back
C16_Witness ==
    /\ call.op = "readBaseSettings"
    /\ call.path = missingYml
    /\ ret.err = ErrNotExist
    /\ ret.stats = <<missingYml>>

\* the index in args of the first occurrence of the switch sw with a value
FirstOccurrence(args, sw) ==
    CHOOSE i \in 1..Len(args) :
        OccursAt(args, sw, i) /\ \A j \in 1..(i - 1) : ~OccursAt(args, sw, j)

\* the value that occurrence gives: the text after `sw=`, or the next token
SuppliedPath(args, sw) ==
    LET i == FirstOccurrence(args, sw) IN
    IF args[i] = sw THEN args[i + 1]
    ELSE SubSeq(args[i], Len(sw) + 2, Len(args[i]))

\* the places in ArgsFileOverride of the triggers the arguments of a
\* searchForArgOverrides call give a path for
Given ==
    {k \in 1..Len(call.ArgsFileOverride) :
        /\ HasValue(call.args, call.ArgsFileOverride[k])
        /\ SuppliedPath(call.args, call.ArgsFileOverride[k]) # <<>>}

GivenPath(k) == SuppliedPath(call.args, call.ArgsFileOverride[k])

Min(S) == CHOOSE x \in S : \A y \in S : x <= y

\* C17: for each trigger of ArgsFileOverride only its first occurrence with a
\* value, in the two token or in the `=` form, gives a path; a trigger that
\* does not occur in the arguments is passed over without error; and when a
\* path that is given names no file, the files of the triggers before it
\* loaded, searchForArgOverrides returns the not-found error and looks at no
\* trigger after it.
C17_FirstOccurrence ==
    call.op = "searchForArgOverrides" =>
        LET Missing == {k \in Given : GivenPath(k) \notin DOMAIN call.fs} IN
        /\ Range(ret.stats) \subseteq {GivenPath(k) : k \in Given}
        /\ Len(ret.stats) <= Cardinality(Given)
        /\ (\A k \in 1..Len(call.ArgsFileOverride) :
                ~HasValue(call.args, call.ArgsFileOverride[k])) =>
              /\ IsOk(ret.err)
              /\ ret.target = call.target
              /\ ret.stats = <<>>
        /\ Missing # {} =>
              /\ ret.err = ErrNotExist
              /\ ret.stats # <<>>
              /\ ret.stats[Len(ret.stats)] = GivenPath(Min(Missing))
              /\ Len(ret.loads) = Cardinality({k \in Given : k < Min(Missing)})

\* the paths the arguments give, in the order of ArgsFileOverride
RECURSIVE GivenPathsFrom(_)
GivenPathsFrom(k) ==
    IF k > Len(call.ArgsFileOverride) THEN <<>>
    ELSE (IF k \in Given THEN <<GivenPath(k)>> ELSE <<>>) \o GivenPathsFrom(k + 1)

RECURSIVE LaidOver(_, _)
\* the record tgt with the documents of the files at `paths` laid over it, one
\* after the other
LaidOver(tgt, paths) ==
    IF paths = <<>> THEN tgt
    ELSE LaidOver(Overlay(tgt, call.fs[Head(paths)].data), Tail(paths))

\* C18: when the arguments give several override files, each one there and
\* sound, the files are loaded in the order of their triggers in
\* ArgsFileOverride, whatever their order in the arguments, each over the top
\* of the ones before: a field that two files name ends with the value of the
\* file loaded later.
C18_ConfiguredOrder ==
    (/\ call.op = "searchForArgOverrides"
     /\ \A k \in 1..Len(call.ArgsFileOverride) :
           HasValue(call.args, call.ArgsFileOverride[k]) =>
               /\ GivenPath(k) \in DOMAIN call.fs
               /\ call.fs[GivenPath(k)].status = "ok")
        => /\ IsOk(ret.err)
           /\ ret.loads = GivenPathsFrom(1)
           /\ ret.target = LaidOver(call.target, GivenPathsFrom(1))

\* the file of -g was loaded before the file of -f, which the arguments give
\* first: Name is as the file of -f has it, Port as the file of -g
C18_Witness ==
    /\ call.op = "searchForArgOverrides"
    /\ call.ArgsFileOverride = <<swFile2, swFile>>
    /\ call.args = <<cmd, swFile, overJson, swFile2, overYml>>
    /\ ret.loads = <<overYml, overJson>>
    /\ ret.target[<<"Name">>] = <<"o">>
    /\ ret.target[<<"Port">>] = 2

\* the index of a setFieldValue call
IndexOf(op) == IF op = "setFieldValue" THEN ConfigIndex ELSE VerboseIndex

\* a record handed over by pointer or by value
RecordTypes == {PtrToConfig, <<"Struct">>}

\* the string sVal coerces to the type t
Coerces(t, sVal) ==
    IsOk((IF t.kind = "Slice" THEN coerceSlice(t, sVal) ELSE coerceScalar(t, sVal)).err)

\* the first entry of the defaults map of the call, in the order of the visit,
\* that fails a check
FirstInvalid ==
    call.order[CHOOSE i \in 1..Len(call.order) :
                   /\ ~EntryValidates(call.ot, call.d, call.order[i])
                   /\ \A j \in 1..(i - 1) :
                         EntryValidates(call.ot, call.d, call.order[j])]

SearchedName(v) ==
    IF call.EnvSearchPattern # <<>>
    THEN Sprintf(call.EnvSearchPattern, call.env[call.EnvOverride[v]])
    ELSE call.env[call.EnvOverride[v]]

\* the candidates of a searchForEnvOverrides call as <<variable, directory,
\* extension>> places, for the variables that are not empty
Candidates ==
    {t \in (1..Len(call.EnvOverride)) \X (1..Len(call.EnvSearchPaths))
               \X (1..Len(settingsExt)) :
        call.env[call.EnvOverride[t[1]]] # <<>>}

CandidatePath(t) ==
    Join(call.EnvSearchPaths[t[2]], SearchedName(t[1])) \o settingsExt[t[3]]

\* the candidate t comes before the candidate u
Before(t, u) ==
    \/ t[1] < u[1]
    \/ t[1] = u[1] /\ t[2] < u[2]
    \/ t[1] = u[1] /\ t[2] = u[2] /\ t[3] < u[3]

\* the candidates that are there for os.Stat to find
ExistingCandidates ==
    {t \in Candidates :
        /\ CandidatePath(t) \in DOMAIN call.fs
        /\ call.fs[CandidatePath(t)].status # "denied"}

FirstExisting ==
    CHOOSE t \in ExistingCandidates :
        \A u \in ExistingCandidates : u = t \/ Before(t, u)

\* C21: the environment file search tries its candidates in one order, the
\* variables of EnvOverride in their order, for each variable that is not
\* empty the directories in their order, in each directory the name with .yml,
\* .yaml, .json and then nothing added; candidates that are not there are
\* passed over; the first candidate that is there is the one loaded, no other
\* file is loaded and no candidate after it is looked at; with no candidate
\* there the search returns nil and the target is as it was.
C21_FixedCandidateOrder ==
    call.op = "searchForEnvOverrides" =>
        LET place(p) == CHOOSE t \in Candidates : CandidatePath(t) = p IN
        /\ \A i \in 1..Len(ret.stats) :
              \E t \in Candidates : CandidatePath(t) = ret.stats[i]
        /\ \A i \in 1..Len(ret.stats), j \in 1..Len(ret.stats) :
              i < j => ~Before(place(ret.stats[j]), place(ret.stats[i]))
        /\ ExistingCandidates = {} =>
              /\ IsOk(ret.err)
              /\ ret.target = call.target
              /\ ret.loads = <<>>
        /\ ExistingCandidates # {} =>
              /\ IsOk(ret.err) => ret.loads = <<CandidatePath(FirstExisting)>>
              /\ ~IsOk(ret.err) => ret.loads = <<>>
              /\ \A i \in 1..Len(ret.stats) :
                    ~Before(FirstExisting, place(ret.stats[i]))

Quotes == {"'", "\""}

\* the string a is wrapped in one pair of matching quotes
Wrapped(a) == Len(a) >= 2 /\ a[1] = a[Len(a)] /\ a[1] \in Quotes

\* v without one leading `=`
Unassigned(v) == IF v # <<>> /\ v[1] = "=" THEN Tail(v) ELSE v

\* v without one leading `=` and then without the one pair of matching quotes
\* around what is left
Stripped(v) ==
    IF Wrapped(Unassigned(v))
    THEN SubSeq(Unassigned(v), 2, Len(Unassigned(v)) - 1)
    ELSE Unassigned(v)

\* C23: for every string v, cleanArgValue(v) is v without at most one leading
\* `=` and then without at most one pair of matching quotes that wraps all of
\* what is left; no other character is removed or moved, and a value that is
\* not wrapped in a matching pair keeps its quotes.
C23_StripsOutermostOnly ==
    call.op = "cleanArgValue" =>
        /\ ~ret.panic
        /\ ret.v = Stripped(call.v)

\* C27: applyArgs and searchForArgOverrides return, with nil or with an error,
\* for every argument list, and cleanArgValue returns a string for every
\* string: none of them runs into an index or slice bounds fault, not for the
\* one character strings =, ' and " either.
C27_AlwaysReturns ==
    /\ call.op = "cleanArgValue" => ~ret.panic
    /\ call.op \in {"applyArgs", "searchForArgOverrides"} => ret.err # Panic

\* the switches of the map of an applyArgs call that the arguments give a value
GivenSwitches == {sw \in DOMAIN call.a : HasValue(call.args, sw)}

\* the places of the tokens that are the value of a switch given in two tokens
ConsumedAsValue ==
    {FirstOccurrence(call.args, sw) + 1 : sw \in
        {s \in GivenSwitches : call.args[FirstOccurrence(call.args, s)] = s}}

\* the switches that occur only where a token is the value of a switch
OnlyAsValue ==
    {o \in GivenSwitches :
        \A i \in 1..Len(call.args) :
            OccursAt(call.args, o, i) => i \in ConsumedAsValue}

\* C24: in applyArgs the token after a switch matched in the two token form is
\* that switch's value and no occurrence of a switch: a switch of the map that
\* occurs only as such a token is not applied, and the field it maps to
\* changes only if another switch that is given maps to it.
C24_ValueIsNoSwitch ==
    call.op = "applyArgs" =>
        \A o \in OnlyAsValue :
            (/\ call.a[o] \in Leaves
             /\ \A p \in GivenSwitches \ OnlyAsValue : call.a[p] # call.a[o])
                => ret.target[call.a[o]] = call.target[call.a[o]]

\* C26: when every entry of the defaults map has passed the checks (path in
\* the index, value of the leaf's kind, location settable), applyDefaultsMap
\* assigns every value and returns nil: the same kind is enough for the
\* assignment, also for a slice whose elements are of another type than the
\* leaf's and for a value of a named type of the leaf's kind.
C26_CommitNeverFails ==
    (/\ call.op = "applyDefaultsMap"
     /\ call.d # <<>>
     /\ \A k \in DOMAIN call.d : EntryValidates(call.ot, call.d, k))
        => /\ ret.err = NoErr
           /\ ret.target =
                 [f \in Leaves |-> IF f \in DOMAIN call.d THEN ValueOf(call.d[f])
                                   ELSE call.target[f]]

\* C25: what a layer returns and the target it leaves are a function of the
\* options, the arguments, the environment and the target it starts from: the
\* order in which a map's entries happen to be visited makes no difference,
\* not with two switches or two variables for one field, not with several
\* invalid entries.
C25_Deterministic ==
    /\ call.op = "applyArgs" =>
          \A o \in Orders(DOMAIN call.a) :
              LET same(r) == r.err = ret.err /\ r.target = ret.target
              IN  same(applyArgs(call.ot, ConfigIndex, call.target, call.args,
                                 call.a, o))
    /\ call.op = "applyVars" =>
          \A o \in Orders(DOMAIN call.v) :
              LET same(r) == r.err = ret.err /\ r.target = ret.target
              IN  same(applyVars(call.ot, ConfigIndex, call.target, call.env,
                                 call.v, o))
    /\ call.op = "applyDefaultsMap" =>
          \A o \in Orders(DOMAIN call.d) :
              LET same(r) == r.err = ret.err /\ r.target = ret.target
              IN  same(applyDefaultsMap(call.ot, ConfigIndex, call.target,
                                        call.d, o))

\* the type of the elements of the slice type t, as a scalar leaf has it
ElemType(t) ==
    IF t.name = "[]time.Time" THEN timeType
    ELSE Type("", t.elem, BitsOf(t.elem), "", <<>>)

\* C28: the slice case of setFieldValue agrees with its scalar cases: for an
\* element type E the scalar cases handle (bool, the integers, the floats,
\* string, time.Time) and a string s without a comma, setFieldValue for a leaf
\* of type []E succeeds exactly when coercing s to E succeeds, and then writes
\* the slice of the one element that coercion gives.
C28_SliceAgreesWithScalar ==
    (/\ call.op = "setFieldValue(verboseConfig)"
     /\ call.ot = PtrToConfig
     /\ VerboseIndex[call.fieldPath].kind = "Slice"
     /\ \/ VerboseIndex[call.fieldPath].elem \in SupportedElems
        \/ ElemType(VerboseIndex[call.fieldPath]) = timeType
     /\ "," \notin Range(call.sVal))
        => LET agree(one) ==
                   IF IsOk(one.err)
                   THEN /\ IsOk(ret.err)
                        /\ ret.target = [call.target EXCEPT ![call.fieldPath] = <<one.v>>]
                   ELSE /\ ret.err = SettingsFieldSetError(TRUE)
                        /\ ret.target = call.target
           IN  agree(coerceScalar(ElemType(VerboseIndex[call.fieldPath]), call.sVal))

\* C30: searchForEnvOverrides returns an error only when a candidate with one
\* of the extensions .yml, .yaml and .json is there and cannot be read or
\* decoded; when no candidate with such an extension is there it returns nil
\* and the target is as it was, also when a file named like the environment,
\* with no extension, is in a search directory.
C30_FailsOnlyOnSupportedFile ==
    call.op = "searchForEnvOverrides" =>
        /\ ~IsOk(ret.err) =>
              \E t \in ExistingCandidates :
                  /\ SupportedExt(CandidatePath(t))
                  /\ call.fs[CandidatePath(t)].status \in {"corrupt", "unreadable"}
        /\ (\A t \in ExistingCandidates : ~SupportedExt(CandidatePath(t))) =>
              /\ IsOk(ret.err)
              /\ ret.target = call.target

----------------------------------------------------------------------------
(* Properties of the ReadOptions builders (SpecOptions) *)

\* what the receiver of the last builder call held before the call
Receiver == lastCall.before[lastCall.recv]

\* what the last builder call returned
Built == View(ros[Len(ros)], heap)

\* C22: SetEnvOverride(vars...) returns options whose EnvOverride is the
\* receiver's EnvOverride followed by vars, in order, and whose other options
\* are the receiver's; and no EnvOverride ever holds a string that was passed
\* to another builder.
C22_EnvOverrideAppends ==
    /\ lastCall.op = "SetEnvOverride" =>
          /\ Built.EnvOverride = Receiver.EnvOverride \o lastCall.arg
          /\ Built = [Receiver EXCEPT !.EnvOverride = Built.EnvOverride]
    /\ \A i \in 1..Len(ros) :
          Range(ros[i].EnvOverride) \subseteq UNION {Range(v) : v \in OptionVars}

MapBuilders == {"SetArgsMap", "SetVarsMap", "SetDefaultsMap"}

\* C29: a builder call does not change its receiver: after
\* r2 := r1.SetArgsMap(m) (or SetVarsMap, SetDefaultsMap, with or without
\* rewrite) r1's maps hold the entries they held before the call; and no later
\* builder call on another value, and no change the caller makes to m, shows
\* in r1.
C29_ReceiverUnchanged ==
    /\ lastCall.op \in MapBuilders =>
          View(ros[lastCall.recv], heap) = Receiver
    /\ lastCall.op = "clear" =>
          View(ros[lastCall.recv], heap) = Receiver
    /\ lastCall.op \in MapBuilders =>
          \A j \in 1..Len(lastCall.before) :
              j # lastCall.recv => View(ros[j], heap) = lastCall.before[j]

====
